---- MODULE Spec2Model ----
(***************************************************************************)
(* DataProxy: a SQL proxy between clients and two backing stores.  Reads   *)
(* are served from the local store when possible, writes are redirected to *)
(* the local store after on-demand schema synchronisation.                 *)
(*                                                                         *)
(* Statements are TLA+ strings; the lexical analysis of query_analyzer.py  *)
(* is modelled character by character, so that classification, table      *)
(* extraction and the safety filter are computed as the code computes them. *)
(***************************************************************************)
EXTENDS Integers, Sequences, FiniteSets, TLC

(***************************************************************************)
(* Python string primitives used by the analyzer.                          *)
(***************************************************************************)
WhitespaceChars == {" ", "\t", "\n", "\r"}

UpperMap ==
  [a |-> "A", b |-> "B", c |-> "C", d |-> "D", e |-> "E", f |-> "F",
   g |-> "G", h |-> "H", i |-> "I", j |-> "J", k |-> "K", l |-> "L",
   m |-> "M", n |-> "N", o |-> "O", p |-> "P", q |-> "Q", r |-> "R",
   s |-> "S", t |-> "T", u |-> "U", v |-> "V", w |-> "W", x |-> "X",
   y |-> "Y", z |-> "Z"]

\* the characters matched by the regular expression class \w
WordChars ==
  DOMAIN UpperMap \cup {UpperMap[c] : c \in DOMAIN UpperMap}
    \cup {"0", "1", "2", "3", "4", "5", "6", "7", "8", "9", "_"}

\* The lexer of TLA+ has no string literal holding the backquote character, so
\* the corpus writes the backquote of SQL identifiers as this character.
Backquote == "^"

Ch(s, i) == SubSeq(s, i, i)

RECURSIVE upper(_)
upper(s) ==
  IF s = "" THEN ""
  ELSE (IF Head(s) \in DOMAIN UpperMap THEN UpperMap[Head(s)] ELSE Head(s))
         \o upper(Tail(s))

RECURSIVE lstrip(_)
lstrip(s) ==
  IF s # "" /\ Head(s) \in WhitespaceChars THEN lstrip(Tail(s)) ELSE s

RECURSIVE rstrip(_)
rstrip(s) ==
  IF s # "" /\ Ch(s, Len(s)) \in WhitespaceChars
  THEN rstrip(SubSeq(s, 1, Len(s) - 1))
  ELSE s

strip(s) == rstrip(lstrip(s))

startswith(s, p) == Len(s) >= Len(p) /\ SubSeq(s, 1, Len(p)) = p

\* s[i:] starts with p (1-based i)
MatchesAt(s, p, i) ==
  i >= 1 /\ i + Len(p) - 1 <= Len(s) /\ SubSeq(s, i, i + Len(p) - 1) = p

\* Python's  p in s
Contains(s, p) == \E i \in 1..Len(s) : MatchesAt(s, p, i)

\* index of the first occurrence of p in s at or after from, 0 when none
Find(s, p, from) ==
  LET I == {i \in from..Len(s) : MatchesAt(s, p, i)}
  IN IF I = {} THEN 0 ELSE CHOOSE i \in I : \A j \in I : i <= j

\* the leading run of non-whitespace characters of s
RECURSIVE WordPrefix(_)
WordPrefix(s) ==
  IF s = "" \/ Head(s) \in WhitespaceChars THEN ""
  ELSE Head(s) \o WordPrefix(Tail(s))

\* Python's  s.split()
RECURSIVE split(_)
split(s) ==
  LET t == lstrip(s)
      w == WordPrefix(t)
  IN IF t = "" THEN << >>
     ELSE <<w>> \o split(SubSeq(t, Len(w) + 1, Len(t)))

(***************************************************************************)
(* The three normalising substitutions of analyze_query.                   *)
(***************************************************************************)
\* the rest of s from the next newline on ('.' does not match a newline)
RECURSIVE SkipToLineEnd(_)
SkipToLineEnd(s) ==
  IF s = "" \/ Head(s) = "\n" THEN s ELSE SkipToLineEnd(Tail(s))

\* re.sub(r'--.*$', '', s, flags=re.MULTILINE)
RECURSIVE SubLineComments(_)
SubLineComments(s) ==
  IF s = "" THEN ""
  ELSE IF startswith(s, "--") THEN SubLineComments(SkipToLineEnd(s))
  ELSE Head(s) \o SubLineComments(Tail(s))

\* re.sub(r'/\*.*?\*/', '', s, flags=re.DOTALL)
RECURSIVE SubBlockComments(_)
SubBlockComments(s) ==
  IF s = "" THEN ""
  ELSE IF startswith(s, "/*") /\ Find(s, "*/", 3) # 0
       THEN SubBlockComments(SubSeq(s, Find(s, "*/", 3) + 2, Len(s)))
  ELSE Head(s) \o SubBlockComments(Tail(s))

\* re.sub(r'\s+', ' ', s)
RECURSIVE SubWhitespace(_)
SubWhitespace(s) ==
  IF s = "" THEN ""
  ELSE IF Head(s) \in WhitespaceChars THEN " " \o SubWhitespace(lstrip(s))
  ELSE Head(s) \o SubWhitespace(Tail(s))

Normalize(query) ==
  strip(SubWhitespace(SubBlockComments(SubLineComments(upper(strip(query))))))

(***************************************************************************)
(* Classification.                                                         *)
(***************************************************************************)
WRITE_KEYWORDS ==
  {"INSERT", "UPDATE", "DELETE", "REPLACE", "TRUNCATE", "DROP", "CREATE",
   "ALTER"}

READ_KEYWORDS == {"SELECT", "SHOW", "DESCRIBE", "EXPLAIN", "USE"}

_classify_query(query) ==
  LET words == split(query)
  IN IF words = << >> THEN "UNKNOWN"
     ELSE IF words[1] \in WRITE_KEYWORDS THEN "WRITE"
     ELSE IF words[1] \in READ_KEYWORDS THEN "READ"
     ELSE IF Contains(query, "INTO") \/ Contains(query, "SET") THEN "WRITE"
     ELSE IF Contains(query, "FROM") \/ Contains(query, "JOIN") THEN "READ"
     ELSE "UNKNOWN"

(***************************************************************************)
(* re.findall(KW\s+^?(\w+)^?, query, re.IGNORECASE): the captured names of *)
(* the non-overlapping matches, scanning from the left (^ is Backquote).   *)
(***************************************************************************)
\* number of leading characters of s[i:] that belong to the set cls
RECURSIVE RunLen(_, _, _)
RunLen(s, i, cls) ==
  IF i <= Len(s) /\ Ch(s, i) \in cls THEN 1 + RunLen(s, i + 1, cls) ELSE 0

\* a match starting at i: <<captured name, index after the match>>, else << >>
KeywordMatch(kw, s, i) ==
  IF ~ (i + Len(kw) - 1 <= Len(s) /\ upper(SubSeq(s, i, i + Len(kw) - 1)) = kw)
  THEN << >>
  ELSE LET ws == RunLen(s, i + Len(kw), WhitespaceChars)
           a  == i + Len(kw) + ws
           b  == IF a <= Len(s) /\ Ch(s, a) = Backquote
                    /\ RunLen(s, a + 1, WordChars) > 0
                 THEN a + 1 ELSE a
           n  == RunLen(s, b, WordChars)
           e  == b + n
       IN IF ws = 0 \/ n = 0 THEN << >>
          ELSE <<SubSeq(s, b, e - 1),
                 IF e <= Len(s) /\ Ch(s, e) = Backquote THEN e + 1 ELSE e>>

RECURSIVE FindAllFrom(_, _, _)
FindAllFrom(kw, s, i) ==
  IF i > Len(s) THEN << >>
  ELSE LET m == KeywordMatch(kw, s, i)
       IN IF m = << >> THEN FindAllFrom(kw, s, i + 1)
          ELSE <<m[1]>> \o FindAllFrom(kw, s, m[2])

findall(kw, s) == FindAllFrom(kw, s, 1)

Range(f) == {f[i] : i \in DOMAIN f}

\* list(set(filter(None, table_names))): the names as a duplicate-free set
_extract_table_names(query, query_type) ==
  LET matches ==
        IF query_type = "READ"
        THEN findall("FROM", query) \o findall("JOIN", query)
        ELSE IF query_type = "WRITE"
        THEN IF startswith(query, "INSERT") THEN findall("INTO", query)
             ELSE IF startswith(query, "UPDATE") THEN findall("UPDATE", query)
             ELSE IF startswith(query, "DELETE") THEN findall("FROM", query)
             ELSE IF startswith(query, "REPLACE") THEN findall("INTO", query)
             ELSE IF startswith(query, "TRUNCATE") THEN findall("TABLE", query)
             ELSE IF startswith(query, "DROP") THEN findall("TABLE", query)
             ELSE IF startswith(query, "CREATE") THEN findall("TABLE", query)
             ELSE IF startswith(query, "ALTER") THEN findall("TABLE", query)
             ELSE << >>
        ELSE << >>
  IN Range(matches) \ {""}

\* (query_type, table_names, original query)
analyze_query(query) ==
  LET normalized_query == Normalize(query)
      query_type == _classify_query(normalized_query)
  IN [query_type  |-> query_type,
      table_names |-> _extract_table_names(normalized_query, query_type),
      clean_query |-> strip(query)]

(***************************************************************************)
(* The safety filter: re.search of each denylisted pattern in the          *)
(* upper-cased, untrimmed-of-comments statement.                           *)
(***************************************************************************)
\* re.search(A\s+B, s)
SearchSpaced(s, A, B) ==
  \E i \in 1..Len(s) :
    /\ MatchesAt(s, A, i)
    /\ RunLen(s, i + Len(A), WhitespaceChars) > 0
    /\ MatchesAt(s, B, i + Len(A) + RunLen(s, i + Len(A), WhitespaceChars))

\* re.search(A\s+.*\s+B, s): '.' matches anything but a newline
SearchSpacedAny(s, A, B) ==
  \E i \in 1..Len(s) : \E j \in 1..Len(s) :
    /\ MatchesAt(s, A, i)
    /\ MatchesAt(s, B, j)
    /\ \E x \in (i + Len(A))..(j - 1) : \E y \in (x + 1)..(j - 1) :
         /\ \A z \in (i + Len(A))..x : Ch(s, z) \in WhitespaceChars
         /\ \A z \in y..(j - 1) : Ch(s, z) \in WhitespaceChars
         /\ \A z \in (x + 1)..(y - 1) : Ch(s, z) # "\n"

\* Faulty variant of is_safe_query: the patterns are matched against the
\* text as written, without upper() and without re.IGNORECASE.
is_safe_query_CaseSensitive(query) ==
  LET normalized_query == strip(query)
  IN ~ \/ SearchSpaced(normalized_query, "DROP", "DATABASE")
       \/ SearchSpaced(normalized_query, "CREATE", "DATABASE")
       \/ SearchSpaced(normalized_query, "ALTER", "DATABASE")
       \/ SearchSpacedAny(normalized_query, "GRANT", "ON")
       \/ SearchSpacedAny(normalized_query, "REVOKE", "FROM")
       \/ SearchSpaced(normalized_query, "FLUSH", "PRIVILEGES")
       \/ SearchSpaced(normalized_query, "SET", "PASSWORD")
       \/ SearchSpaced(normalized_query, "CREATE", "USER")
       \/ SearchSpaced(normalized_query, "DROP", "USER")

is_safe_query(query) ==
  LET normalized_query == upper(strip(query))
  IN ~ \/ SearchSpaced(normalized_query, "DROP", "DATABASE")
       \/ SearchSpaced(normalized_query, "CREATE", "DATABASE")
       \/ SearchSpaced(normalized_query, "ALTER", "DATABASE")
       \/ SearchSpacedAny(normalized_query, "GRANT", "ON")
       \/ SearchSpacedAny(normalized_query, "REVOKE", "FROM")
       \/ SearchSpaced(normalized_query, "FLUSH", "PRIVILEGES")
       \/ SearchSpaced(normalized_query, "SET", "PASSWORD")
       \/ SearchSpaced(normalized_query, "CREATE", "USER")
       \/ SearchSpaced(normalized_query, "DROP", "USER")

(***************************************************************************)
(* Python values held in a routing outcome: None, a list, an integer, or   *)
(* a key that the dictionary does not have.                                *)
(***************************************************************************)
PyNone == [py |-> "None"]
PyAbsent == [py |-> "absent"]
PyList(xs) == [py |-> "list", v |-> xs]
PyInt(n) == [py |-> "int", v |-> n]
PyStr(x) == [py |-> "str", v |-> x]
PyBool(b) == [py |-> "bool", v |-> b]
PyBytes(x) == [py |-> "bytes", v |-> x]

\* Faulty variant of Truthy: the test  x is not None  in place of  x.
Truthy_IsNotNone(x) ==
  CASE x.py = "bool" -> x.v
    [] x.py = "int"  -> x.v # 0
    [] OTHER         -> x.py # "None"

\* Python truthiness
Truthy(x) ==
  CASE x.py = "list" -> x.v # << >>
    [] x.py = "int"  -> x.v # 0
    [] x.py = "str"  -> x.v # ""
    [] x.py = "bytes" -> x.v # ""
    [] x.py = "bool" -> x.v
    [] OTHER         -> FALSE

(***************************************************************************)
(* Bounds.                                                                 *)
(***************************************************************************)
MaxClients == 2     \* connections accepted in one behaviour
MaxQueries == 2     \* query frames read in one behaviour

ClientIds == 0..(MaxClients - 1)

(***************************************************************************)
(* The two backing stores.  A store is the set of its tables and the       *)
(* number of data-changing statements applied to it.  The server matches   *)
(* table names without regard to case, so tables are named in upper case.  *)
(***************************************************************************)
AllTables == {"USERS", "ORDERS", "LOGS", "PEOPLE", "DATAPROXY_METADATA"}

ProdInit == [tables |-> {"USERS", "ORDERS"}, writes |-> 0]
LocalInit == [tables |-> {"DATAPROXY_METADATA"}, writes |-> 0]

\* What the database server does with each statement of the corpus:
\*   query: returns a result set;   dml: changes the rows of a table;
\*   dml_returning: changes the rows of a table and returns a result set;
\*   ddl: removes the tables drops and creates the tables adds.
\* uses are the tables that must exist for the statement to execute.
Statement(sql, kind, uses, drops, adds) ==
  [sql |-> sql, kind |-> kind, uses |-> uses, drops |-> drops, adds |-> adds]

\* statements that name at most one table
SingleTable ==
  { Statement("SELECT * FROM users", "query", {"USERS"}, {}, {}),
    Statement("SHOW TABLES", "query", {}, {}, {}),
    Statement("INSERT INTO users (name) VALUES ('a')", "dml",
              {"USERS"}, {}, {}),
    Statement("DELETE FROM logs", "dml", {"LOGS"}, {}, {}),
    Statement("TRUNCATE users", "dml", {"USERS"}, {}, {}),
    Statement("WITH d AS (SELECT 1) DELETE FROM users", "dml",
              {"USERS"}, {}, {}),
    Statement("DROP TABLE users", "ddl", {"USERS"}, {"USERS"}, {}),
    Statement("RENAME TABLE users TO people", "ddl",
              {"USERS"}, {"USERS"}, {"PEOPLE"}),
    Statement("DROP DATABASE prod", "ddl", {}, AllTables, {}) }

\* statements that name two tables
TwoTables ==
  { Statement("SELECT * FROM users JOIN orders", "query",
              {"USERS", "ORDERS"}, {}, {}),
    Statement("DELETE FROM users WHERE id IN (SELECT id FROM orders)", "dml",
              {"USERS", "ORDERS"}, {}, {}) }

\* data-changing statements that return the rows they changed
Returning ==
  { Statement("INSERT INTO users (id) VALUES (1) RETURNING id",
              "dml_returning", {"USERS"}, {}, {}),
    Statement("REPLACE INTO users (id) VALUES (1) RETURNING id",
              "dml_returning", {"USERS"}, {}, {}),
    Statement("/* audit */ DELETE FROM users RETURNING id",
              "dml_returning", {"USERS"}, {}, {}) }

\* a statement with a result set whose first word is in neither keyword set
Unclassified ==
  { Statement("TABLE users", "query", {"USERS"}, {}, {}) }

Statements == SingleTable \cup TwoTables \cup Returning \cup Unclassified

\* the statements the clients of one run send
Workloads == {SingleTable, TwoTables, Returning, Unclassified}

\* the statement the server receives as the text q
Sql(q) == CHOOSE st \in Statements : st.sql = q

\* the query loop strips the text of a packet and skips an empty one;
\* route_query lines 30 and 33 for every statement it can then be given
Analyzed(workload) ==
  [q \in {strip(st.sql) : st \in workload} \ {""} |->
     [analysis |-> analyze_query(q), safe |-> is_safe_query(q)]]

\* a row of a result set: for each column, the number of characters of the
\* str() of its value
Row == [id |-> 1, note |-> 5]
WideRow == [id |-> 1, note |-> 300]
RowSets == {<< >>, <<Row>>, <<Row, WideRow>>}

\* conn.execute(text(query)) on a store: the statement executes ("ok"), the
\* driver reports a database error ("error", an SQLAlchemyError), or another
\* exception is thrown ("raise").  rows is the result set, returns_rows
\* tells whether there is one.
ConnExecute(store, q) ==
  LET st == Sql(q)
      fail == {[status |-> s, returns_rows |-> FALSE, rows |-> << >>,
                store |-> store] : s \in {"error", "raise"}}
  IN IF ~ (st.uses \subseteq store.tables) THEN fail
     ELSE fail \cup
       IF st.kind = "query"
       THEN {[status |-> "ok", returns_rows |-> TRUE, rows |-> rs,
              store |-> store] : rs \in RowSets}
       ELSE IF st.kind = "dml"
       THEN {[status |-> "ok", returns_rows |-> FALSE, rows |-> << >>,
              store |-> [store EXCEPT !.writes = @ + 1]]}
       ELSE IF st.kind = "dml_returning"
       THEN {[status |-> "ok", returns_rows |-> TRUE, rows |-> rs,
              store |-> [store EXCEPT !.writes = @ + 1]] : rs \in RowSets}
       ELSE {[status |-> "ok", returns_rows |-> FALSE, rows |-> << >>,
              store |-> [store EXCEPT
                           !.tables = (@ \ st.drops) \cup st.adds]]}

\* execute_production_query and execute_local_query share one body: the rows
\* when the statement returns rows, None when it does not, and None when an
\* SQLAlchemyError is caught; any other exception propagates.
ExecuteQuery(store, q) ==
  {[status |-> o.status,
    ret    |-> IF o.status = "ok" /\ o.returns_rows
               THEN PyList(o.rows) ELSE PyNone,
    store  |-> o.store] : o \in ConnExecute(store, q)}

execute_production_query(store, q) == ExecuteQuery(store, q)

execute_local_query(store, q) == ExecuteQuery(store, q)

\* table_exists_local: a count query on the local information schema;
\* result and result[0]['count'] > 0
table_exists_local(store, t) ==
  {[status |-> "ok", ret |-> PyBool(t \in store.tables)],
   [status |-> "error", ret |-> PyNone],
   [status |-> "raise", ret |-> PyNone]}

\* the column descriptors production holds for a table
Columns(t) ==
  <<[column_name |-> "id", data_type |-> "int", is_nullable |-> "NO",
     column_default |-> PyNone, extra |-> "", table |-> t]>>

\* get_table_schema: the column rows of the production information schema
get_table_schema(store, t) ==
  {[status |-> "ok",
    ret |-> PyList(IF t \in store.tables THEN Columns(t) ELSE << >>)],
   [status |-> "error", ret |-> PyNone],
   [status |-> "raise", ret |-> PyNone]}

\* Faulty variant of create_local_table: the statement is a plain CREATE
\* TABLE and its failure on a table that exists is reported.
create_local_table_FailsIfExists(store, t, schema) ==
  IF ~ Truthy(schema)
  THEN {[status |-> "skip", ret |-> PyBool(FALSE), store |-> store]}
  ELSE IF t \in store.tables
  THEN {[status |-> "exists", ret |-> PyBool(FALSE), store |-> store]}
  ELSE {[status |-> "ok", ret |-> PyBool(TRUE),
         store |-> [store EXCEPT !.tables = @ \cup {t}]],
        [status |-> "error", ret |-> PyBool(TRUE), store |-> store],
        [status |-> "raise", ret |-> PyBool(FALSE), store |-> store]}

\* create_local_table: CREATE TABLE IF NOT EXISTS through execute_local_query,
\* whose return value is not looked at; only an exception other than an
\* SQLAlchemyError makes it report failure.
create_local_table(store, t, schema) ==
  IF ~ Truthy(schema)
  THEN {[status |-> "skip", ret |-> PyBool(FALSE), store |-> store]}
  ELSE {[status |-> "ok", ret |-> PyBool(TRUE),
         store |-> [store EXCEPT !.tables = @ \cup {t}]],
        [status |-> "error", ret |-> PyBool(TRUE), store |-> store],
        [status |-> "raise", ret |-> PyBool(FALSE), store |-> store]}

\* _get_rows_affected
_get_rows_affected(query) ==
  IF startswith(upper(query), "INSERT") THEN PyInt(1)
  ELSE IF startswith(upper(query), "UPDATE") THEN PyInt(1)
  ELSE IF startswith(upper(query), "DELETE") THEN PyInt(1)
  ELSE PyNone

(***************************************************************************)
(* The routing outcome dictionaries built by query_router.py.              *)
(***************************************************************************)
EmptyDict ==
  [success |-> FALSE, error |-> PyAbsent, query_type |-> "",
   routed_to |-> "", data |-> PyAbsent, rows_affected |-> PyAbsent,
   table_names |-> {}]

Rejected(query_type) ==
  [EmptyDict EXCEPT
     !.error = PyStr("Query contains potentially dangerous operations"),
     !.query_type = query_type, !.routed_to = "rejected"]

\* the except clause of route_query
RoutingError(query_type, e) ==
  [EmptyDict EXCEPT
     !.error = PyStr(e), !.query_type = query_type, !.routed_to = "error"]

ReadResult(data, routed_to, table_names) ==
  [EmptyDict EXCEPT
     !.success = TRUE, !.data = data, !.query_type = "READ",
     !.routed_to = routed_to, !.table_names = table_names]

WriteError(e) ==
  [EmptyDict EXCEPT
     !.error = PyStr(e), !.query_type = "WRITE", !.routed_to = "error"]

WriteResult(data, table_names, query) ==
  [EmptyDict EXCEPT
     !.success = TRUE, !.data = data, !.query_type = "WRITE",
     !.routed_to = "local", !.table_names = table_names,
     !.rows_affected = _get_rows_affected(query)]

UnknownResult(data) ==
  [EmptyDict EXCEPT
     !.success = (data # PyNone), !.data = data, !.query_type = "UNKNOWN",
     !.routed_to = "production",
     !.error = PyStr("Query type unknown, executed on production")]

(***************************************************************************)
(* The frames a client sends and ClientHandler._read_packet.  A frame is   *)
(* what the two recv calls get: the bytes of the header that arrive, the   *)
(* payload length the header announces, the payload bytes that arrive, and *)
(* whether recv throws (connection reset).                                 *)
(***************************************************************************)
HeaderLen == 4

\* a byte that is not valid UTF-8, as it is written in a payload here
InvalidByte == "#"

Packet(header, length, payload, reset) ==
  [header |-> header, length |-> length, payload |-> payload,
   reset |-> reset]

\* a frame that arrives whole
WellFormed(payload) == Packet(HeaderLen, Len(payload), payload, FALSE)

PeerClosed == Packet(0, 0, "", FALSE)
ShortHeader == Packet(2, 0, "", FALSE)
ShortPayload == Packet(HeaderLen, 5, "SEL", FALSE)
ConnectionReset == Packet(0, 0, "", TRUE)
ZeroLength == WellFormed("")
Blank == WellFormed(" " \o InvalidByte \o " ")

MalformedFrames == {PeerClosed, ShortHeader, ShortPayload, ConnectionReset}

\* the frames a client may send as its authentication request
AuthFrames == {WellFormed("auth"), ZeroLength} \cup MalformedFrames

\* the frames a client may send in the query loop, given the statements
QueryFrames(statements) ==
  {WellFormed(q) : q \in statements} \cup {ZeroLength, Blank}
    \cup MalformedFrames

\* _read_packet: the payload, or None for a short header, a short payload
\* or an exception
_read_packet(frame) ==
  IF frame.reset THEN PyNone
  ELSE IF frame.header < HeaderLen THEN PyNone
  ELSE IF Len(frame.payload) < frame.length THEN PyNone
  ELSE PyBytes(frame.payload)

\* bytes.decode('utf-8', errors='ignore'): invalid bytes are dropped
RECURSIVE decode(_)
decode(b) ==
  IF b = "" THEN ""
  ELSE IF Ch(b, 1) = InvalidByte THEN decode(Tail(b))
  ELSE Ch(b, 1) \o decode(Tail(b))

\* the text the query loop makes of a packet
QueryText(packet) == strip(decode(packet.v))

(***************************************************************************)
(* State.                                                                  *)
(***************************************************************************)
VARIABLES
  running,          \* DataProxyServer.running
  server_socket,    \* DataProxyServer.server_socket
  main_pc,          \* where the thread that calls start and stop is
  stop_pc,          \* where stop is
  in_recv,          \* handlers left inside recv when stop closed their socket
  client_counter,   \* DataProxyServer.client_counter
  clients,          \* DataProxyServer.clients: the ids in the registry
  pc,               \* where each ClientHandler thread is
  authenticated,    \* ClientHandler.authenticated
  socket_closed,    \* whether ClientHandler.client_socket has been closed
  query,            \* the statement the handler is routing
  rpc,              \* where route_query is for that statement
  todo,             \* the tables the loop of the handler has yet to visit
  table_name,       \* the table the write loop is synchronising
  schema,           \* the schema fetched for it
  result,           \* the outcome route_query returns
  calls,            \* the backing-store calls route_query made so far
  sent,             \* the frames sent in answer to the statement
  local,            \* the local store
  prod,             \* the production store
  nqueries,         \* query frames read so far
  packet,           \* what the last _read_packet of the handler returned
  analyzed          \* the statements of the run, each with its analysis

vars ==
  <<running, server_socket, main_pc, stop_pc, in_recv, client_counter,
    clients, pc, authenticated, socket_closed, query, rpc, todo, table_name, schema,
    result, calls, sent, local, prod, nqueries, packet, analyzed>>

serverVars ==
  <<running, server_socket, main_pc, stop_pc, client_counter, clients,
    analyzed>>
routeVars == <<query, rpc, todo, table_name, schema, result, calls>>
storeVars == <<local, prod>>

\* one backing-store call: the method, its argument, whether the database
\* executed it ("ok"), reported an error or an exception escaped, and what
\* the method returned
Call(op, arg, o) ==
  [op |-> op, arg |-> arg, status |-> o.status, ret |-> o.ret]

Init ==
  /\ running = FALSE
  /\ server_socket = "None"
  /\ main_pc = "start"
  /\ stop_pc = "idle"
  /\ in_recv = {}
  /\ client_counter = 0
  /\ clients = {}
  /\ pc = [c \in ClientIds |-> "NONE"]
  /\ authenticated = [c \in ClientIds |-> FALSE]
  /\ socket_closed = [c \in ClientIds |-> FALSE]
  /\ query = [c \in ClientIds |-> ""]
  /\ rpc = [c \in ClientIds |-> "idle"]
  /\ todo = [c \in ClientIds |-> {}]
  /\ table_name = [c \in ClientIds |-> ""]
  /\ schema = [c \in ClientIds |-> PyNone]
  /\ result = [c \in ClientIds |-> EmptyDict]
  /\ calls = [c \in ClientIds |-> << >>]
  /\ sent = [c \in ClientIds |-> << >>]
  /\ local = LocalInit
  /\ prod = ProdInit
  /\ nqueries = 0
  /\ packet = [c \in ClientIds |-> PyAbsent]
  /\ \E workload \in Workloads : analyzed = Analyzed(workload)

(***************************************************************************)
(* DataProxyServer.start: the listening socket is bound and the accept     *)
(* loop runs.                                                              *)
(***************************************************************************)
Start ==
  /\ main_pc = "start"
  /\ ~ running
  /\ client_counter = 0
  /\ \E bound \in BOOLEAN :
       IF bound
       THEN /\ server_socket' = "listening"
            /\ running' = TRUE
            /\ main_pc' = "accept"
       ELSE /\ server_socket' = "unbound"
            /\ main_pc' = "returned"
            /\ UNCHANGED running
  /\ UNCHANGED <<stop_pc, in_recv, client_counter, clients, pc,
                 authenticated, socket_closed, sent, nqueries, packet,
                 analyzed>>
  /\ UNCHANGED routeVars
  /\ UNCHANGED storeVars

\* Faulty variant of Accept: client_counter is not incremented.
Accept_NoIncrement ==
  /\ main_pc = "accept"
  /\ running
  /\ client_counter < MaxClients
  /\ LET client_id == client_counter
     IN /\ client_counter' = client_counter
        /\ clients' = clients \cup {client_id}
        /\ pc' = [pc EXCEPT ![client_id] = "INIT"]
  /\ UNCHANGED <<running, server_socket, main_pc, stop_pc, in_recv,
                 authenticated, socket_closed, sent, nqueries, packet,
                 analyzed>>
  /\ UNCHANGED routeVars
  /\ UNCHANGED storeVars

\* one turn of the accept loop: a handler with a fresh id is registered and
\* its thread started
Accept ==
  /\ main_pc = "accept"
  /\ running
  /\ client_counter < MaxClients
  /\ LET client_id == client_counter
     IN /\ client_counter' = client_counter + 1
        /\ clients' = clients \cup {client_id}
        /\ pc' = [pc EXCEPT ![client_id] = "INIT"]
  /\ UNCHANGED <<running, server_socket, main_pc, stop_pc, in_recv,
                 authenticated, socket_closed, sent, nqueries, packet,
                 analyzed>>
  /\ UNCHANGED routeVars
  /\ UNCHANGED storeVars

\* accept raises socket.error while the server is running: the except
\* clause logs it and leaves the loop, and start returns
AcceptError ==
  /\ main_pc = "accept"
  /\ main_pc' = "returned"
  /\ UNCHANGED <<running, server_socket, stop_pc, in_recv, client_counter,
                 clients, pc, authenticated, socket_closed, sent, nqueries,
                 packet, analyzed>>
  /\ UNCHANGED routeVars
  /\ UNCHANGED storeVars

\* the handlers that can be inside recv: those waiting for a packet on a
\* socket that is open
Receiving ==
  {c \in clients : /\ pc[c] \in {"AUTH_PENDING", "QUERY_WAIT"}
                   /\ ~ socket_closed[c]}

\* main: start has returned, or a KeyboardInterrupt has ended the accept
\* loop, and the finally clause calls stop.  stop closes the socket of every
\* registered handler from the main thread.  socket.close does not wake a
\* thread that is inside recv on that socket: a handler whose header has
\* arrived and that waits in recv(packet_length) may be woken with an error
\* or may stay there until the client sends the payload or disconnects.
Stop ==
  /\ main_pc \in {"accept", "returned"}
  /\ main_pc' = "stopped"
  /\ stop_pc' = "done"
  /\ running' = FALSE
  /\ socket_closed' = [c \in ClientIds |-> socket_closed[c] \/ c \in clients]
  /\ clients' = {}
  /\ \E blocked \in SUBSET Receiving : in_recv' = blocked
  /\ server_socket' = IF server_socket = "None" THEN "None" ELSE "closed"
  /\ UNCHANGED <<client_counter, pc, authenticated, sent, nqueries, packet,
                 analyzed>>
  /\ UNCHANGED routeVars
  /\ UNCHANGED storeVars

(***************************************************************************)
(* ClientHandler.handle up to the query loop.                              *)
(***************************************************************************)
\* ClientHandler.close, reached through the finally clause of handle
Closed(c) ==
  /\ pc' = [pc EXCEPT ![c] = "CLOSED"]
  /\ socket_closed' = [socket_closed EXCEPT ![c] = TRUE]

\* _read_packet of handler c when the client sends frame: once the socket
\* has been closed every recv raises and _read_packet returns None, except
\* the recv that was pending when the socket was closed
Recv(c, frame) ==
  IF socket_closed[c] /\ c \notin in_recv THEN PyNone
  ELSE _read_packet(frame)

\* Faulty variant of SendHandshake: the handler enters the query loop
\* without the authentication step.
SendHandshake_NoAuth(c) ==
  /\ pc[c] = "INIT"
  /\ pc' = [pc EXCEPT ![c] = "QUERY_WAIT"]
  /\ UNCHANGED <<authenticated, socket_closed, sent, nqueries, packet>>
  /\ UNCHANGED serverVars
  /\ UNCHANGED in_recv
  /\ UNCHANGED routeVars
  /\ UNCHANGED storeVars

\* _send_handshake: the send succeeds, or raises and handle closes
SendHandshake(c) ==
  /\ pc[c] = "INIT"
  /\ \E ok \in {b \in BOOLEAN : b => ~ socket_closed[c]} :
       IF ok
       THEN /\ pc' = [pc EXCEPT ![c] = "AUTH_PENDING"]
            /\ UNCHANGED socket_closed
       ELSE Closed(c)
  /\ UNCHANGED <<authenticated, sent, nqueries, packet>>
  /\ UNCHANGED serverVars
  /\ UNCHANGED in_recv
  /\ UNCHANGED routeVars
  /\ UNCHANGED storeVars

\* _handle_authentication: a packet that is read and is not empty is
\* accepted whatever it holds (if not auth_packet: return False)
\* and answered with an OK packet; when that send raises, the except clause
\* returns False and handle closes
HandleAuthentication(c) ==
  /\ pc[c] = "AUTH_PENDING"
  /\ \E frame \in AuthFrames :
       LET auth_packet == Recv(c, frame)
       IN IF Truthy(auth_packet)
          THEN \E up \in {b \in BOOLEAN : b => ~ socket_closed[c]} :
                 IF up
                 THEN /\ pc' = [pc EXCEPT ![c] = "QUERY_WAIT"]
                      /\ authenticated' = [authenticated EXCEPT ![c] = TRUE]
                      /\ packet' = [packet EXCEPT ![c] = PyAbsent]
                      /\ UNCHANGED socket_closed
                 ELSE /\ Closed(c)
                      /\ packet' = [packet EXCEPT ![c] = auth_packet]
                      /\ UNCHANGED authenticated
          ELSE /\ Closed(c)
               /\ packet' = [packet EXCEPT ![c] = auth_packet]
               /\ UNCHANGED authenticated
  /\ UNCHANGED <<sent, nqueries>>
  /\ UNCHANGED serverVars
  /\ in_recv' = in_recv \ {c}
  /\ UNCHANGED routeVars
  /\ UNCHANGED storeVars

\* Faulty variant of ReadFailure: the loop is left but the socket is not
\* closed.
ReadFailure_SocketLeftOpen(c) ==
  /\ pc[c] = "QUERY_WAIT"
  /\ \E frame \in QueryFrames(DOMAIN analyzed) :
       /\ ~ Truthy(Recv(c, frame))
       /\ packet' = [packet EXCEPT ![c] = Recv(c, frame)]
  /\ pc' = [pc EXCEPT ![c] = "CLOSED"]
  /\ UNCHANGED <<authenticated, socket_closed, sent, nqueries>>
  /\ UNCHANGED serverVars
  /\ in_recv' = in_recv \ {c}
  /\ UNCHANGED routeVars
  /\ UNCHANGED storeVars

\* the query loop reads no packet (if not packet: break): the loop ends and
\* handle closes the socket
ReadFailure(c) ==
  /\ pc[c] = "QUERY_WAIT"
  /\ \E frame \in QueryFrames(DOMAIN analyzed) :
       /\ ~ Truthy(Recv(c, frame))
       /\ packet' = [packet EXCEPT ![c] = Recv(c, frame)]
  /\ Closed(c)
  /\ UNCHANGED <<authenticated, sent, nqueries>>
  /\ UNCHANGED serverVars
  /\ in_recv' = in_recv \ {c}
  /\ UNCHANGED routeVars
  /\ UNCHANGED storeVars

\* the query loop reads a packet whose text is empty (if query: is false)
\* and goes on to read the next one
EmptyQuery(c) ==
  /\ pc[c] = "QUERY_WAIT"
  /\ nqueries < MaxQueries
  /\ nqueries' = nqueries + 1
  /\ \E frame \in QueryFrames(DOMAIN analyzed) :
       /\ Truthy(Recv(c, frame))
       /\ QueryText(Recv(c, frame)) = ""
       /\ packet' = [packet EXCEPT ![c] = Recv(c, frame)]
  /\ sent' = [sent EXCEPT ![c] = << >>]
  /\ UNCHANGED <<pc, authenticated, socket_closed>>
  /\ UNCHANGED serverVars
  /\ in_recv' = in_recv \ {c}
  /\ UNCHANGED routeVars
  /\ UNCHANGED storeVars

(***************************************************************************)
(* QueryRouter.route_query, one action per backing-store call.             *)
(***************************************************************************)
Routing(c, at) == pc[c] = "QUERY_EXEC" /\ rpc[c] = at

Log(c, op, arg, o) ==
  calls' = [calls EXCEPT ![c] = Append(@, Call(op, arg, o))]

Return(c, outcome) ==
  /\ result' = [result EXCEPT ![c] = outcome]
  /\ rpc' = [rpc EXCEPT ![c] = "return"]

Goto(c, at) ==
  /\ rpc' = [rpc EXCEPT ![c] = at]
  /\ UNCHANGED result

\* the message of an exception thrown by a backing-store call
Fault == "backing store fault"

\* Faulty variant of route_query: the safety check is missing.
route_query_Unchecked(a, safe) ==
  IF a.query_type = "READ"
  THEN [at |-> IF a.table_names = {} THEN "read_production"
                                     ELSE "read_exists",
        result |-> EmptyDict]
  ELSE IF a.query_type = "WRITE"
  THEN IF a.table_names = {}
       THEN [at |-> "return",
             result |-> WriteError("No table names found in write query")]
       ELSE [at |-> "write_exists", result |-> EmptyDict]
  ELSE [at |-> "unknown_production", result |-> EmptyDict]

\* Faulty variant of route_query: a READ goes to the local store when
\* all(...) holds, also for an empty table list.
route_query_AllLocalOnly(a, safe) ==
  IF ~ safe
  THEN [at |-> "return", result |-> Rejected(a.query_type)]
  ELSE IF a.query_type = "READ"
  THEN [at |-> IF a.table_names = {} THEN "read_local" ELSE "read_exists",
        result |-> EmptyDict]
  ELSE IF a.query_type = "WRITE"
  THEN IF a.table_names = {}
       THEN [at |-> "return",
             result |-> WriteError("No table names found in write query")]
       ELSE [at |-> "write_exists", result |-> EmptyDict]
  ELSE [at |-> "unknown_production", result |-> EmptyDict]

\* Faulty variant of route_query: a WRITE without table names is executed.
route_query_NoTableTest(a, safe) ==
  IF ~ safe
  THEN [at |-> "return", result |-> Rejected(a.query_type)]
  ELSE IF a.query_type = "READ"
  THEN [at |-> IF a.table_names = {} THEN "read_production"
                                     ELSE "read_exists",
        result |-> EmptyDict]
  ELSE IF a.query_type = "WRITE"
  THEN [at |-> IF a.table_names = {} THEN "write_execute"
                                     ELSE "write_exists",
        result |-> EmptyDict]
  ELSE [at |-> "unknown_production", result |-> EmptyDict]

\* route_query up to its first backing-store call: where the handler goes
\* next, or the outcome it returns at once
route_query(a, safe) ==
  IF ~ safe
  THEN [at |-> "return", result |-> Rejected(a.query_type)]
  ELSE IF a.query_type = "READ"
  THEN [at |-> IF a.table_names = {} THEN "read_production"
                                     ELSE "read_exists",
        result |-> EmptyDict]
  ELSE IF a.query_type = "WRITE"
  THEN IF a.table_names = {}
       THEN [at |-> "return",
             result |-> WriteError("No table names found in write query")]
       ELSE [at |-> "write_exists", result |-> EmptyDict]
  ELSE [at |-> "unknown_production", result |-> EmptyDict]

\* The query loop reads a packet holding a statement and hands it to
\* _handle_query, which calls route_query.
RouteQuery(c) ==
  /\ pc[c] = "QUERY_WAIT"
  /\ nqueries < MaxQueries
  /\ nqueries' = nqueries + 1
  /\ pc' = [pc EXCEPT ![c] = "QUERY_EXEC"]
  /\ sent' = [sent EXCEPT ![c] = << >>]
  /\ \E frame \in QueryFrames(DOMAIN analyzed) :
       /\ Truthy(Recv(c, frame))
       /\ QueryText(Recv(c, frame)) # ""
       /\ packet' = [packet EXCEPT ![c] = Recv(c, frame)]
       /\ LET q == QueryText(Recv(c, frame))
              r == route_query(analyzed[q].analysis, analyzed[q].safe)
          IN
          /\ query' = [query EXCEPT ![c] = q]
          /\ rpc' = [rpc EXCEPT ![c] = r.at]
          /\ result' = [result EXCEPT ![c] = r.result]
          /\ todo' = [todo EXCEPT ![c] =
                        IF r.at = "return" THEN {}
                        ELSE analyzed[q].analysis.table_names]
  /\ UNCHANGED <<authenticated, socket_closed, table_name, schema, calls>>
  /\ UNCHANGED serverVars
  /\ in_recv' = in_recv \ {c}
  /\ UNCHANGED storeVars

\* Faulty variant of Raised: the exception is swallowed and the statement is
\* reported as executed on production without data.
Raised_Swallowed(c) ==
  Return(c, ReadResult(PyNone, "production", {}))

\* the except clause of route_query for the statement of handler c
Raised(c) ==
  Return(c, RoutingError(analyzed[query[c]].analysis.query_type, Fault))

\* _handle_read_query: all(table_exists_local(table) for table in table_names)
\* stops at the first table that is not local
ReadExists(c) ==
  /\ Routing(c, "read_exists")
  /\ \E t \in todo[c] : \E o \in table_exists_local(local, t) :
       /\ Log(c, "table_exists_local", t, o)
       /\ IF o.status = "raise"
          THEN /\ Raised(c)
               /\ UNCHANGED todo
          ELSE IF Truthy(o.ret)
          THEN /\ todo' = [todo EXCEPT ![c] = @ \ {t}]
               /\ Goto(c, IF todo[c] = {t} THEN "read_local"
                                           ELSE "read_exists")
          ELSE /\ Goto(c, "read_production")
               /\ UNCHANGED todo
  /\ UNCHANGED <<pc, authenticated, socket_closed, query, table_name, schema,
                 sent, nqueries, packet>>
  /\ UNCHANGED serverVars
  /\ UNCHANGED in_recv
  /\ UNCHANGED storeVars

\* Faulty variant of ReadLocal: a failed local read is returned as an error
\* instead of falling back to production.
ReadLocal_NoFallback(c) ==
  /\ Routing(c, "read_local")
  /\ \E o \in execute_local_query(local, query[c]) :
       /\ Log(c, "execute_local_query", query[c], o)
       /\ local' = o.store
       /\ IF o.status = "raise" THEN Raised(c)
          ELSE IF o.ret # PyNone
          THEN Return(c, ReadResult(o.ret, "local",
                                    analyzed[query[c]].analysis.table_names))
          ELSE Return(c, RoutingError("READ", "Local query failed"))
  /\ UNCHANGED <<pc, authenticated, socket_closed, query, todo, table_name,
                 schema, sent, nqueries, packet, prod>>
  /\ UNCHANGED serverVars
  /\ UNCHANGED in_recv

\* _handle_read_query: every table is local, the statement is tried locally
ReadLocal(c) ==
  /\ Routing(c, "read_local")
  /\ \E o \in execute_local_query(local, query[c]) :
       /\ Log(c, "execute_local_query", query[c], o)
       /\ local' = o.store
       /\ IF o.status = "raise" THEN Raised(c)
          ELSE IF o.ret # PyNone
          THEN Return(c, ReadResult(o.ret, "local",
                                    analyzed[query[c]].analysis.table_names))
          ELSE Goto(c, "read_production")
  /\ UNCHANGED <<pc, authenticated, socket_closed, query, todo, table_name,
                 schema, sent, nqueries, packet, prod>>
  /\ UNCHANGED serverVars
  /\ UNCHANGED in_recv

\* _handle_read_query: the statement is executed against production
ReadProduction(c) ==
  /\ Routing(c, "read_production")
  /\ \E o \in execute_production_query(prod, query[c]) :
       /\ Log(c, "execute_production_query", query[c], o)
       /\ prod' = o.store
       /\ IF o.status = "raise" THEN Raised(c)
          ELSE Return(c, ReadResult(o.ret, "production",
                                    analyzed[query[c]].analysis.table_names))
  /\ UNCHANGED <<pc, authenticated, socket_closed, query, todo, table_name,
                 schema, sent, nqueries, packet, local>>
  /\ UNCHANGED serverVars
  /\ UNCHANGED in_recv

\* _handle_write_query: the existence check of the next table of the loop
WriteExists(c) ==
  /\ Routing(c, "write_exists")
  /\ \E t \in todo[c] : \E o \in table_exists_local(local, t) :
       /\ Log(c, "table_exists_local", t, o)
       /\ IF o.status = "raise"
          THEN /\ Raised(c)
               /\ UNCHANGED <<todo, table_name>>
          ELSE IF Truthy(o.ret)
          THEN /\ todo' = [todo EXCEPT ![c] = @ \ {t}]
               /\ Goto(c, IF todo[c] = {t} THEN "write_execute"
                                           ELSE "write_exists")
               /\ UNCHANGED table_name
          ELSE /\ table_name' = [table_name EXCEPT ![c] = t]
               /\ Goto(c, "write_schema")
               /\ UNCHANGED todo
  /\ UNCHANGED <<pc, authenticated, socket_closed, query, schema, sent,
                 nqueries, packet>>
  /\ UNCHANGED serverVars
  /\ UNCHANGED in_recv
  /\ UNCHANGED storeVars

\* Faulty variant of WriteSchema: the fetched schema is not used to create
\* the table; the loop goes on to the next table.
WriteSchema_NoCreate(c) ==
  /\ Routing(c, "write_schema")
  /\ \E o \in get_table_schema(prod, table_name[c]) :
       /\ Log(c, "get_table_schema", table_name[c], o)
       /\ IF o.status = "raise"
          THEN /\ Raised(c)
               /\ UNCHANGED <<schema, todo>>
          ELSE IF Truthy(o.ret)
          THEN /\ schema' = [schema EXCEPT ![c] = o.ret]
               /\ todo' = [todo EXCEPT ![c] = @ \ {table_name[c]}]
               /\ Goto(c, IF todo[c] = {table_name[c]} THEN "write_execute"
                                                       ELSE "write_exists")
          ELSE /\ Return(c, WriteError("Failed to get schema for table: "
                                         \o table_name[c]))
               /\ UNCHANGED <<schema, todo>>
  /\ UNCHANGED <<pc, authenticated, socket_closed, query, table_name,
                 sent, nqueries, packet>>
  /\ UNCHANGED serverVars
  /\ UNCHANGED in_recv
  /\ UNCHANGED storeVars

\* _handle_write_query: the schema of an absent table is fetched
WriteSchema(c) ==
  /\ Routing(c, "write_schema")
  /\ \E o \in get_table_schema(prod, table_name[c]) :
       /\ Log(c, "get_table_schema", table_name[c], o)
       /\ IF o.status = "raise"
          THEN /\ Raised(c)
               /\ UNCHANGED schema
          ELSE IF Truthy(o.ret)
          THEN /\ schema' = [schema EXCEPT ![c] = o.ret]
               /\ Goto(c, "write_create")
          ELSE /\ Return(c, WriteError("Failed to get schema for table: "
                                         \o table_name[c]))
               /\ UNCHANGED schema
  /\ UNCHANGED <<pc, authenticated, socket_closed, query, todo, table_name,
                 sent, nqueries, packet>>
  /\ UNCHANGED serverVars
  /\ UNCHANGED in_recv
  /\ UNCHANGED storeVars

\* _handle_write_query: the absent table is created locally
WriteCreate(c) ==
  /\ Routing(c, "write_create")
  /\ \E o \in create_local_table(local, table_name[c], schema[c]) :
       /\ Log(c, "create_local_table", table_name[c], o)
       /\ local' = o.store
       /\ IF Truthy(o.ret)
          THEN /\ todo' = [todo EXCEPT ![c] = @ \ {table_name[c]}]
               /\ Goto(c, IF todo[c] = {table_name[c]} THEN "write_execute"
                                                       ELSE "write_exists")
          ELSE /\ Return(c, WriteError("Failed to create local table: "
                                         \o table_name[c]))
               /\ UNCHANGED todo
  /\ UNCHANGED <<pc, authenticated, socket_closed, query, table_name, schema,
                 sent, nqueries, packet, prod>>
  /\ UNCHANGED serverVars
  /\ UNCHANGED in_recv

\* Faulty variant of WriteExecute: the write is sent to production.
WriteExecute_OnProduction(c) ==
  /\ Routing(c, "write_execute")
  /\ \E o \in execute_production_query(prod, query[c]) :
       /\ Log(c, "execute_production_query", query[c], o)
       /\ prod' = o.store
       /\ IF o.status = "raise" THEN Raised(c)
          ELSE IF o.ret # PyNone
          THEN Return(c, WriteResult(o.ret,
                                     analyzed[query[c]].analysis.table_names,
                                     query[c]))
          ELSE Return(c, WriteError("Write query failed on local database"))
  /\ UNCHANGED <<pc, authenticated, socket_closed, query, todo, table_name,
                 schema, sent, nqueries, packet, local>>
  /\ UNCHANGED serverVars
  /\ UNCHANGED in_recv

\* _handle_write_query: the write is executed on the local store
WriteExecute(c) ==
  /\ Routing(c, "write_execute")
  /\ \E o \in execute_local_query(local, query[c]) :
       /\ Log(c, "execute_local_query", query[c], o)
       /\ local' = o.store
       /\ IF o.status = "raise" THEN Raised(c)
          ELSE IF o.ret # PyNone
          THEN Return(c, WriteResult(o.ret,
                                     analyzed[query[c]].analysis.table_names,
                                     query[c]))
          ELSE Return(c, WriteError("Write query failed on local database"))
  /\ UNCHANGED <<pc, authenticated, socket_closed, query, todo, table_name,
                 schema, sent, nqueries, packet, prod>>
  /\ UNCHANGED serverVars
  /\ UNCHANGED in_recv

\* _handle_unknown_query: the statement is executed against production
UnknownProduction(c) ==
  /\ Routing(c, "unknown_production")
  /\ \E o \in execute_production_query(prod, query[c]) :
       /\ Log(c, "execute_production_query", query[c], o)
       /\ prod' = o.store
       /\ IF o.status = "raise" THEN Raised(c)
          ELSE Return(c, UnknownResult(o.ret))
  /\ UNCHANGED <<pc, authenticated, socket_closed, query, todo, table_name,
                 schema, sent, nqueries, packet, local>>
  /\ UNCHANGED serverVars
  /\ UNCHANGED in_recv

(***************************************************************************)
(* ClientHandler._handle_query after route_query has returned: the frame   *)
(* that answers the statement.                                             *)
(***************************************************************************)
Frame(kind, data) == [frame |-> kind, data |-> data]

\* the largest length that len(...).to_bytes(1, 'little') can encode
ByteMax == 255

\* '|'.join(str(v) for v in row.values()): its length
RowDataLen(row) == row.id + 1 + row.note

\* the rows of data that come before the first one too long for its length
\* byte
RECURSIVE RowsBeforeOverflow(_)
RowsBeforeOverflow(data) ==
  IF data = << >> \/ RowDataLen(Head(data)) > ByteMax THEN << >>
  ELSE <<Head(data)>> \o RowsBeforeOverflow(Tail(data))

\* _send_result_set: the column count, the column definitions, one send per
\* row, the EOF marker.  The length of a row that does not fit one byte
\* raises OverflowError after the rows before it have been sent.
_send_result_set(data) ==
  IF data = << >>
  THEN [frames |-> <<Frame("empty_result_set", PyList(data))>>,
        raised |-> FALSE]
  ELSE IF RowsBeforeOverflow(data) = data
  THEN [frames |-> <<Frame("result_set", PyList(data))>>, raised |-> FALSE]
  ELSE [frames |-> <<Frame("partial_result_set",
                           PyList(RowsBeforeOverflow(data)))>>,
        raised |-> TRUE]

\* _send_results: a result set for a READ with rows, else an OK packet with
\* result.get('rows_affected', 0); None.to_bytes raises; the except clause
\* sends an error packet after whatever was sent before the exception
_send_results(r) ==
  IF r.query_type = "READ" /\ Truthy(r.data)
  THEN LET o == _send_result_set(r.data.v)
       IN IF o.raised
          THEN o.frames \o <<Frame("error", PyStr("Failed to send results"))>>
          ELSE o.frames
  ELSE LET rows_affected ==
             IF r.rows_affected = PyAbsent THEN PyInt(0) ELSE r.rows_affected
       IN IF rows_affected.py = "int"
          THEN <<Frame("ok", rows_affected)>>
          ELSE <<Frame("error", PyStr("Failed to send results"))>>

\* Faulty variant of _handle_query: the outcome is passed to _send_results
\* whether it succeeded or not.
_handle_query_NoSuccessTest(r) == _send_results(r)

\* _handle_query: the frames sent for the outcome route_query returned
_handle_query(r) ==
  IF r.success
  THEN _send_results(r)
  ELSE <<Frame("error", IF r.error = PyAbsent THEN PyStr("Query failed")
                                              ELSE r.error)>>

\* Faulty variant of SendResponse: after an outcome without success the
\* error frame is sent and the session is closed.
SendResponse_CloseOnError(c) ==
  /\ Routing(c, "return")
  /\ sent' = [sent EXCEPT ![c] = _handle_query(result[c])]
  /\ IF result[c].success
     THEN /\ pc' = [pc EXCEPT ![c] = "QUERY_WAIT"]
          /\ UNCHANGED socket_closed
     ELSE Closed(c)
  /\ rpc' = [rpc EXCEPT ![c] = "idle"]
  /\ query' = [query EXCEPT ![c] = ""]
  /\ todo' = [todo EXCEPT ![c] = {}]
  /\ table_name' = [table_name EXCEPT ![c] = ""]
  /\ schema' = [schema EXCEPT ![c] = PyNone]
  /\ result' = [result EXCEPT ![c] = EmptyDict]
  /\ calls' = [calls EXCEPT ![c] = << >>]
  /\ packet' = [packet EXCEPT ![c] = PyAbsent]
  /\ UNCHANGED <<authenticated, nqueries>>
  /\ UNCHANGED serverVars
  /\ UNCHANGED in_recv
  /\ UNCHANGED storeVars

\* _handle_query after route_query returned.  While the client socket takes
\* the frames (up) the answer is sent and the loop waits for the next
\* packet.  When the socket is broken every send raises: the one of
\* _send_results, the _send_error of its except clause, the _send_error of
\* the except clause of _handle_query, and the exception reaches the except
\* clause of the query loop, whose _send_error raises too; the loop is left
\* and handle closes.  The locals of route_query die with its frame.
SendResponse(c) ==
  /\ Routing(c, "return")
  /\ \E up \in {b \in BOOLEAN : b => ~ socket_closed[c]} :
       IF up
       THEN /\ sent' = [sent EXCEPT ![c] = _handle_query(result[c])]
            /\ pc' = [pc EXCEPT ![c] = "QUERY_WAIT"]
            /\ UNCHANGED socket_closed
       ELSE /\ sent' = [sent EXCEPT ![c] = << >>]
            /\ Closed(c)
  /\ rpc' = [rpc EXCEPT ![c] = "idle"]
  /\ query' = [query EXCEPT ![c] = ""]
  /\ todo' = [todo EXCEPT ![c] = {}]
  /\ table_name' = [table_name EXCEPT ![c] = ""]
  /\ schema' = [schema EXCEPT ![c] = PyNone]
  /\ result' = [result EXCEPT ![c] = EmptyDict]
  /\ calls' = [calls EXCEPT ![c] = << >>]
  /\ packet' = [packet EXCEPT ![c] = PyAbsent]
  /\ UNCHANGED <<authenticated, nqueries>>
  /\ UNCHANGED serverVars
  /\ UNCHANGED in_recv
  /\ UNCHANGED storeVars

Next ==
  \/ Start
  \/ Accept
  \/ AcceptError
  \/ Stop
  \/ \E c \in ClientIds : SendHandshake(c)
  \/ \E c \in ClientIds : HandleAuthentication(c)
  \/ \E c \in ClientIds : ReadFailure(c)
  \/ \E c \in ClientIds : EmptyQuery(c)
  \/ \E c \in ClientIds : RouteQuery(c)
  \/ \E c \in ClientIds : ReadExists(c)
  \/ \E c \in ClientIds : ReadLocal(c)
  \/ \E c \in ClientIds : ReadProduction(c)
  \/ \E c \in ClientIds : WriteExists(c)
  \/ \E c \in ClientIds : WriteSchema(c)
  \/ \E c \in ClientIds : WriteCreate(c)
  \/ \E c \in ClientIds : WriteExecute(c)
  \/ \E c \in ClientIds : UnknownProduction(c)
  \/ \E c \in ClientIds : SendResponse(c)

Spec == Init /\ [][Next]_vars

(***************************************************************************)
(* The analyzer on its own: QueryAnalyzer.analyze_query and is_safe_query  *)
(* applied to one statement of a corpus, as test_basic.py applies them.    *)
(***************************************************************************)
\* no server has been started
NoServer ==
  /\ running = FALSE
  /\ server_socket = "None"
  /\ main_pc = "start"
  /\ stop_pc = "idle"
  /\ in_recv = {}
  /\ client_counter = 0
  /\ clients = {}

\* no connection has been accepted
NoSession ==
  /\ pc = [c \in ClientIds |-> "NONE"]
  /\ authenticated = [c \in ClientIds |-> FALSE]
  /\ socket_closed = [c \in ClientIds |-> FALSE]
  /\ nqueries = 0
  /\ packet = [c \in ClientIds |-> PyAbsent]
  /\ sent = [c \in ClientIds |-> << >>]

\* no statement is being routed
NoRoute ==
  /\ query = [c \in ClientIds |-> ""]
  /\ rpc = [c \in ClientIds |-> "idle"]
  /\ todo = [c \in ClientIds |-> {}]
  /\ table_name = [c \in ClientIds |-> ""]
  /\ schema = [c \in ClientIds |-> PyNone]
  /\ result = [c \in ClientIds |-> EmptyDict]
  /\ calls = [c \in ClientIds |-> << >>]

\* what may precede the first keyword of a statement: nothing, whitespace,
\* a line comment, a block comment, a block comment that holds two dashes
CommentPrefixes == {"", " ", "-- c\n", "/* c */ ", "/* -- */ "}

KeywordTails == {"", " t"}

\* statements that begin, after their comment, with a keyword of one of the
\* two sets
KeywordCorpus ==
  {p \o kw \o t : p \in CommentPrefixes,
                  kw \in READ_KEYWORDS \cup WRITE_KEYWORDS,
                  t \in KeywordTails}

\* statements whose first word is in neither set
FallbackCorpus ==
  {"CALL reset()", "ANALYZE TABLE offsets", "OPTIMIZE TABLE assets",
   "CALL f(1)", "MERGE INTO t USING s", "BEGIN", "CALL f() SET a",
   "WITH a AS (SELECT 1) SELECT 2 FROM a", "(SELECT 1 FROM t) JOIN u",
   "CALL adjoint()", "CALL inform()",
   "INSERT/**/INTO users (id) VALUES (1)",
   "REPLACE/* c */INTO users VALUES (1)",
   "UPDATE" \o Backquote \o "users" \o Backquote \o " SET id = 1"}

\* statements with the tables they name, spelled as in the statement
TableCorpus ==
  {[sql |-> "SELECT * FROM users JOIN orders ON users.id = orders.user_id",
    tables |-> {"users", "orders"}],
   [sql |-> "SELECT * FROM USERS", tables |-> {"USERS"}],
   [sql |-> "SELECT * FROM T JOIN T ON 1", tables |-> {"T"}],
   [sql |-> "INSERT INTO logs (m) VALUES (1)", tables |-> {"logs"}],
   [sql |-> "UPDATE " \o Backquote \o "t" \o Backquote \o " SET a = 1",
    tables |-> {"t"}],
   [sql |-> "DELETE FROM Orders WHERE id = 1", tables |-> {"Orders"}],
   [sql |-> "TRUNCATE TABLE LOGS", tables |-> {"LOGS"}]}

\* the denylisted patterns of the form A\s+B
SpacedPatterns ==
  {<<"DROP", "DATABASE">>, <<"CREATE", "DATABASE">>, <<"ALTER", "DATABASE">>,
   <<"FLUSH", "PRIVILEGES">>, <<"SET", "PASSWORD">>, <<"CREATE", "USER">>,
   <<"DROP", "USER">>}

\* statements that match a denylisted pattern
Denylisted ==
  {pre \o pat[1] \o ws \o pat[2] \o post :
     pat \in SpacedPatterns, ws \in {" ", "\n", "  "},
     pre \in {"", "SELECT 1; "}, post \in {"", " x"}}
  \cup {"drop database prod", "Create  User u", "flush\tprivileges",
        "GRANT ALL PRIVILEGES ON *.* TO 'u'@'%'", "grant all on t to u",
        "GRANT  ON", "REVOKE ALL FROM u", "revoke\nall\nfrom u",
        "SELECT 'DROP DATABASE x'"}

\* statements that match none
Clean ==
  {"SELECT * FROM users", "INSERT INTO logs (message) VALUES ('t')",
   "UPDATE settings SET value = 'new' WHERE key = 'test'",
   "DROP TABLE database_log", "DROPDATABASE x", "CREATE TABLE user_log (a int)",
   "SELECT * FROM user", "SET NAMES utf8", "SHOW GRANTS", "FLUSH TABLES",
   "ALTER TABLE users ADD password int"}

Corpus ==
  KeywordCorpus \cup FallbackCorpus \cup {e.sql : e \in TableCorpus}
  \cup Denylisted \cup Clean

AnalyzerInit ==
  /\ NoServer
  /\ NoSession
  /\ NoRoute
  /\ local = LocalInit
  /\ prod = ProdInit
  /\ analyzed = << >>

\* one statement of the corpus is analysed and checked
AnalyzeQuery ==
  /\ DOMAIN analyzed = {}
  /\ \E q \in Corpus : analyzed' = Analyzed({[sql |-> q]})
  /\ UNCHANGED <<running, server_socket, main_pc, stop_pc, in_recv,
                 client_counter, clients, pc, authenticated, socket_closed,
                 sent, nqueries, packet>>
  /\ UNCHANGED routeVars
  /\ UNCHANGED storeVars

AnalyzerNext == AnalyzeQuery

AnalyzerSpec == AnalyzerInit /\ [][AnalyzerNext]_vars

(***************************************************************************)
(* QueryRouter.sync_table_schema called on its own, by thread 0, for one   *)
(* table, on a local store that holds any of the tables.  Its steps are    *)
(* its backing-store calls; its return value closes the log of its calls.  *)
(***************************************************************************)
SyncTables == {"USERS", "ORDERS", "LOGS", "PEOPLE"}

SyncInit ==
  /\ NoServer
  /\ NoSession
  /\ analyzed = << >>
  /\ query = [c \in ClientIds |-> ""]
  /\ todo = [c \in ClientIds |-> {}]
  /\ schema = [c \in ClientIds |-> PyNone]
  /\ result = [c \in ClientIds |-> EmptyDict]
  /\ calls = [c \in ClientIds |-> << >>]
  /\ prod = ProdInit
  /\ \E T \in SUBSET SyncTables :
       local = [LocalInit EXCEPT !.tables = @ \cup T]
  /\ \E t \in SyncTables :
       table_name = [c \in ClientIds |-> IF c = 0 THEN t ELSE ""]
  /\ rpc = [c \in ClientIds |-> IF c = 0 THEN "sync_exists" ELSE "idle"]

\* sync_table_schema returns ret after the backing-store call o
SyncReturn(c, op, o, ret) ==
  /\ calls' = [calls EXCEPT ![c] =
                 Append(Append(@, Call(op, table_name[c], o)),
                        Call("sync_table_schema", table_name[c],
                             [status |-> "ok", ret |-> ret]))]
  /\ rpc' = [rpc EXCEPT ![c] = "sync_return"]

\* an exception of the backing-store call o leaves sync_table_schema
SyncRaise(c, op, o) ==
  /\ Log(c, op, table_name[c], o)
  /\ rpc' = [rpc EXCEPT ![c] = "sync_raised"]

\* if not self.db_manager.table_exists_local(table_name): ... return False
SyncExists(c) ==
  /\ rpc[c] = "sync_exists"
  /\ \E o \in table_exists_local(local, table_name[c]) :
       IF o.status = "raise" THEN SyncRaise(c, "table_exists_local", o)
       ELSE IF ~ Truthy(o.ret)
       THEN /\ Log(c, "table_exists_local", table_name[c], o)
            /\ rpc' = [rpc EXCEPT ![c] = "sync_schema"]
       ELSE SyncReturn(c, "table_exists_local", o, PyBool(FALSE))
  /\ UNCHANGED <<pc, authenticated, socket_closed, sent, nqueries, packet,
                 query, todo, table_name, schema, result>>
  /\ UNCHANGED serverVars
  /\ UNCHANGED in_recv
  /\ UNCHANGED storeVars

\* schema = self.db_manager.get_table_schema(table_name); if schema: ...
\* return False
SyncSchema(c) ==
  /\ rpc[c] = "sync_schema"
  /\ \E o \in get_table_schema(prod, table_name[c]) :
       /\ schema' = [schema EXCEPT ![c] = o.ret]
       /\ IF o.status = "raise" THEN SyncRaise(c, "get_table_schema", o)
          ELSE IF Truthy(o.ret)
          THEN /\ Log(c, "get_table_schema", table_name[c], o)
               /\ rpc' = [rpc EXCEPT ![c] = "sync_create"]
          ELSE SyncReturn(c, "get_table_schema", o, PyBool(FALSE))
  /\ UNCHANGED <<pc, authenticated, socket_closed, sent, nqueries, packet,
                 query, todo, table_name, result>>
  /\ UNCHANGED serverVars
  /\ UNCHANGED in_recv
  /\ UNCHANGED storeVars

\* return self.db_manager.create_local_table(table_name, schema)
SyncCreate(c) ==
  /\ rpc[c] = "sync_create"
  /\ \E o \in create_local_table(local, table_name[c], schema[c]) :
       /\ local' = o.store
       /\ SyncReturn(c, "create_local_table",
                     [status |-> o.status, ret |-> o.ret], o.ret)
  /\ UNCHANGED <<pc, authenticated, socket_closed, sent, nqueries, packet,
                 query, todo, table_name, schema, result, prod>>
  /\ UNCHANGED serverVars
  /\ UNCHANGED in_recv

SyncNext ==
  \/ SyncExists(0)
  \/ SyncSchema(0)
  \/ SyncCreate(0)

SyncSpec == SyncInit /\ [][SyncNext]_vars

(***************************************************************************)
(* stop called from a thread of its own while start is in the accept loop. *)
(* The statements of the loop and of stop are the steps: the threads share *)
(* running, clients and server_socket without a lock.                      *)
(***************************************************************************)
ShutdownInit ==
  /\ NoServer
  /\ NoSession
  /\ NoRoute
  /\ local = LocalInit
  /\ prod = ProdInit
  /\ analyzed = << >>

\* while self.running:
LoopTest ==
  /\ main_pc = "accept"
  /\ main_pc' = IF running THEN "in_accept" ELSE "returned"
  /\ UNCHANGED <<running, server_socket, stop_pc, in_recv, client_counter,
                 clients, pc, authenticated, socket_closed, sent, nqueries,
                 packet, analyzed>>
  /\ UNCHANGED routeVars
  /\ UNCHANGED storeVars

\* self.server_socket.accept() returns a connection
AcceptReturns ==
  /\ main_pc = "in_accept"
  /\ server_socket = "listening"
  /\ client_counter < MaxClients
  /\ main_pc' = "accepted"
  /\ UNCHANGED <<running, server_socket, stop_pc, in_recv, client_counter,
                 clients, pc, authenticated, socket_closed, sent, nqueries,
                 packet, analyzed>>
  /\ UNCHANGED routeVars
  /\ UNCHANGED storeVars

\* self.server_socket.accept() raises socket.error and the loop is left
AcceptRaises ==
  /\ main_pc = "in_accept"
  /\ main_pc' = "returned"
  /\ UNCHANGED <<running, server_socket, stop_pc, in_recv, client_counter,
                 clients, pc, authenticated, socket_closed, sent, nqueries,
                 packet, analyzed>>
  /\ UNCHANGED routeVars
  /\ UNCHANGED storeVars

\* the handler of the accepted connection gets its id, is put in the
\* registry and its thread is started
RegisterHandler ==
  /\ main_pc = "accepted"
  /\ main_pc' = "accept"
  /\ LET client_id == client_counter
     IN /\ client_counter' = client_counter + 1
        /\ clients' = clients \cup {client_id}
        /\ pc' = [pc EXCEPT ![client_id] = "INIT"]
  /\ UNCHANGED <<running, server_socket, stop_pc, in_recv, authenticated,
                 socket_closed, sent, nqueries, packet, analyzed>>
  /\ UNCHANGED routeVars
  /\ UNCHANGED storeVars

\* stop: self.running = False
StopRunning ==
  /\ stop_pc = "idle"
  /\ main_pc # "start"
  /\ stop_pc' = "close_clients"
  /\ running' = FALSE
  /\ UNCHANGED <<server_socket, main_pc, in_recv, client_counter, clients,
                 pc, authenticated, socket_closed, sent, nqueries, packet,
                 analyzed>>
  /\ UNCHANGED routeVars
  /\ UNCHANGED storeVars

\* stop: every handler of list(self.clients.items()) is closed and deleted
StopClients ==
  /\ stop_pc = "close_clients"
  /\ stop_pc' = "close_server"
  /\ socket_closed' = [c \in ClientIds |-> socket_closed[c] \/ c \in clients]
  /\ clients' = {}
  /\ \E blocked \in SUBSET Receiving : in_recv' = blocked
  /\ UNCHANGED <<running, server_socket, main_pc, client_counter, pc,
                 authenticated, sent, nqueries, packet, analyzed>>
  /\ UNCHANGED routeVars
  /\ UNCHANGED storeVars

\* stop: the listening socket is closed, and stop returns
StopServerSocket ==
  /\ stop_pc = "close_server"
  /\ stop_pc' = "done"
  /\ server_socket' = IF server_socket = "None" THEN "None" ELSE "closed"
  /\ UNCHANGED <<running, main_pc, in_recv, client_counter, clients, pc,
                 authenticated, socket_closed, sent, nqueries, packet,
                 analyzed>>
  /\ UNCHANGED routeVars
  /\ UNCHANGED storeVars

ShutdownNext ==
  \/ Start
  \/ LoopTest
  \/ AcceptReturns
  \/ AcceptRaises
  \/ RegisterHandler
  \/ StopRunning
  \/ StopClients
  \/ StopServerSocket
  \/ \E c \in ClientIds : SendHandshake(c)
  \/ \E c \in ClientIds : HandleAuthentication(c)
  \/ \E c \in ClientIds : ReadFailure(c)

ShutdownSpec == ShutdownInit /\ [][ShutdownNext]_vars

(***************************************************************************)
(* ClientHandler._send_result_set byte by byte.  Here a row is the dict    *)
(* the store returned, a sequence of (column, value) pairs in the order of *)
(* its keys, and what is sent is the sequence of the bytes passed to       *)
(* client_socket.send, a byte being a number.                              *)
(***************************************************************************)
LowerCase == "abcdefghijklmnopqrstuvwxyz"
Digits == "0123456789"

\* ord() of the characters that column names and values are written with
ord(ch) ==
  IF \E i \in 1..Len(LowerCase) : Ch(LowerCase, i) = ch
  THEN 96 + (CHOOSE i \in 1..Len(LowerCase) : Ch(LowerCase, i) = ch)
  ELSE IF \E i \in 1..Len(Digits) : Ch(Digits, i) = ch
  THEN 47 + (CHOOSE i \in 1..Len(Digits) : Ch(Digits, i) = ch)
  ELSE CASE ch = " " -> 32
         [] ch = "(" -> 40
         [] ch = ")" -> 41
         [] ch = "N" -> 78
         [] ch = Backquote -> 96
         [] ch = "|" -> 124

\* the characters above
Alphabet ==
  {Ch(LowerCase, i) : i \in 1..Len(LowerCase)}
  \cup {Ch(Digits, i) : i \in 1..Len(Digits)}
  \cup {" ", "(", ")", "N", Backquote, "|"}

\* s.encode('utf-8') for a string of these characters
RECURSIVE encode(_)
encode(s) == IF s = "" THEN << >> ELSE <<ord(Head(s))>> \o encode(Tail(s))

\* str(v)
str(v) ==
  CASE v.py = "str" -> v.v
    [] v.py = "int" -> Ch(Digits, v.v + 1)
    [] v.py = "None" -> "None"

\* '|'.join(str(v) for v in row.values())
RECURSIVE join(_)
join(row) ==
  IF row = << >> THEN ""
  ELSE IF Len(row) = 1 THEN str(row[1].value)
  ELSE str(row[1].value) \o "|" \o join(Tail(row))

\* the column definition sent for a column
col_def(column) == Backquote \o column \o Backquote \o " varchar(255)"

\* one send per text, len(text).to_bytes(1, 'little') + text; OverflowError
\* at the first text longer than 255 bytes ends the sends
RECURSIVE SendEach(_)
SendEach(texts) ==
  IF texts = << >> THEN [bytes |-> << >>, raised |-> FALSE]
  ELSE IF Len(Head(texts)) > ByteMax THEN [bytes |-> << >>, raised |-> TRUE]
  ELSE LET rest == SendEach(Tail(texts))
       IN [bytes |-> <<Len(Head(texts))>> \o encode(Head(texts))
                      \o rest.bytes,
           raised |-> rest.raised]

\* the bytes _send_result_set sends for data
ResultSetBytes(data) ==
  IF data = << >> THEN <<0, 254>>
  ELSE LET defs == [i \in 1..Len(data[1]) |-> col_def(data[1][i].column)]
           rows == [i \in 1..Len(data) |-> join(data[i])]
           body == SendEach(defs \o rows)
       IN <<1>> \o body.bytes \o (IF body.raised THEN << >> ELSE <<254>>)

\* the values a store returns in a column, and the columns of a table
Values == <<PyInt(1), PyStr("ann"), PyStr("a|b"), PyStr(""), PyNone>>

ColumnNames == <<"id", "name">>

\* the most rows in a row set
MaxRows == 2

\* the row set of nrows rows over the first ncols columns whose values are
\* the ones pick names
TextRows(nrows, ncols, pick) ==
  [i \in 1..nrows |->
     [j \in 1..ncols |->
        [column |-> ColumnNames[j], value |-> Values[pick[i][j]]]]]

EncodeInit ==
  /\ NoServer
  /\ NoSession
  /\ analyzed = << >>
  /\ query = [c \in ClientIds |-> ""]
  /\ rpc = [c \in ClientIds |-> "idle"]
  /\ todo = [c \in ClientIds |-> {}]
  /\ table_name = [c \in ClientIds |-> ""]
  /\ schema = [c \in ClientIds |-> PyNone]
  /\ calls = [c \in ClientIds |-> << >>]
  /\ local = LocalInit
  /\ prod = ProdInit
  /\ \E nrows \in 1..MaxRows, ncols \in 1..Len(ColumnNames) :
       \E pick \in [1..nrows -> [1..ncols -> 1..Len(Values)]] :
         result = [c \in ClientIds |->
                     IF c = 0
                     THEN ReadResult(PyList(TextRows(nrows, ncols, pick)),
                                     "local", {})
                     ELSE EmptyDict]

\* _send_results hands the rows of the outcome to _send_result_set
SendResultSet(c) ==
  /\ sent[c] = << >>
  /\ result[c].query_type = "READ" /\ Truthy(result[c].data)
  /\ sent' = [sent EXCEPT ![c] = ResultSetBytes(result[c].data.v)]
  /\ UNCHANGED <<pc, authenticated, socket_closed, nqueries, packet>>
  /\ UNCHANGED serverVars
  /\ UNCHANGED in_recv
  /\ UNCHANGED routeVars
  /\ UNCHANGED storeVars

EncodeNext == SendResultSet(0)

EncodeSpec == EncodeInit /\ [][EncodeNext]_vars

(***************************************************************************)
(* Vocabulary of the properties.                                           *)
(***************************************************************************)
\* handler c is inside route_query or holds the outcome it returned
InRoute(c) == pc[c] = "QUERY_EXEC"

\* route_query has returned and the answer is not yet sent
Returned(c) == pc[c] = "QUERY_EXEC" /\ rpc[c] = "return"

QueryType(c) == analyzed[query[c]].analysis.query_type
TableNames(c) == analyzed[query[c]].analysis.table_names
IsSafe(c) == analyzed[query[c]].safe

\* the positions in the call log of c of the calls of op with argument arg
CallsOf(c, op, arg) ==
  {i \in DOMAIN calls[c] : calls[c][i].op = op /\ calls[c][i].arg = arg}

\* the positions of the calls of op, whatever the argument
CallsTo(c, op) == {i \in DOMAIN calls[c] : calls[c][i].op = op}

LastCall(c) == calls[c][Len(calls[c])]

\* an existence check of c answered that t is local / is not local
FoundLocal(c, t) ==
  \E i \in CallsOf(c, "table_exists_local", t) :
    calls[c][i].ret = PyBool(TRUE)

FoundAbsent(c, t) ==
  \E i \in CallsOf(c, "table_exists_local", t) :
    calls[c][i].status # "raise" /\ calls[c][i].ret # PyBool(TRUE)

\* C1: after any sequence of statements routed by any number of sessions the
\* data and the schema of the production store are what they were at start.
C1_ProductionUnchanged == prod = ProdInit

\* C2: while a WRITE statement is routed the statement text is never passed
\* to execute_production_query; the only production call is get_table_schema
\* and the statement is executed by execute_local_query alone.
C2_WriteNeverOnProduction ==
  \A c \in ClientIds :
    InRoute(c) /\ QueryType(c) = "WRITE" =>
      /\ CallsTo(c, "execute_production_query") = {}
      /\ \A i \in DOMAIN calls[c] :
           calls[c][i].arg = query[c] =>
             calls[c][i].op = "execute_local_query"
      /\ \A i \in DOMAIN calls[c] :
           calls[c][i].op \in {"table_exists_local", "get_table_schema",
                               "create_local_table", "execute_local_query"}

C2_Witness ==
  \E c \in ClientIds :
    /\ Returned(c)
    /\ QueryType(c) = "WRITE"
    /\ CallsTo(c, "get_table_schema") # {}
    /\ \E i \in CallsOf(c, "execute_local_query", query[c]) :
         calls[c][i].status = "ok"

\* C3: a statement that is_safe_query refuses is answered success=false,
\* routed_to='rejected', and no backing-store call is made for it.
C3_UnsafeRejectedWithoutCalls ==
  \A c \in ClientIds :
    InRoute(c) /\ ~ IsSafe(c) =>
      /\ rpc[c] = "return"
      /\ result[c].success = FALSE
      /\ result[c].routed_to = "rejected"
      /\ calls[c] = << >>

C3_Witness ==
  \E c \in ClientIds :
    Returned(c) /\ ~ IsSafe(c) /\ result[c].routed_to = "rejected"

\* C4: for a WRITE whose tables are all synchronized the outcome is
\* success=true, routed_to='local' exactly when the local execution did not
\* signal an error, also when the statement returns no result set.
C4_WriteSuccessIffNoError ==
  \A c \in ClientIds :
    (/\ Returned(c)
     /\ QueryType(c) = "WRITE"
     /\ calls[c] # << >>
     /\ LastCall(c).op = "execute_local_query")
    => ((LastCall(c).status = "ok")
          <=> (result[c].success /\ result[c].routed_to = "local"))

C4_WriteExecuted ==
  \E c \in ClientIds :
    /\ Returned(c)
    /\ QueryType(c) = "WRITE"
    /\ calls[c] # << >>
    /\ LastCall(c).op = "execute_local_query"
    /\ LastCall(c).status = "ok"

C6_ReadFallsBackToProduction ==
  \A c \in ClientIds :
    Returned(c) /\ QueryType(c) = "READ" =>
      \A i \in CallsOf(c, "execute_local_query", query[c]) :
        calls[c][i].status = "error" =>
          /\ CallsOf(c, "execute_production_query", query[c]) = {i + 1}
          /\ calls[c][i + 1].status = "ok" =>
               result[c].success /\ result[c].routed_to = "production"

C6_Witness ==
  \E c \in ClientIds :
    /\ Returned(c)
    /\ QueryType(c) = "READ"
    /\ \E i \in CallsOf(c, "execute_local_query", query[c]) :
         /\ calls[c][i].status = "error"
         /\ calls[c][i + 1].op = "execute_production_query"
         /\ calls[c][i + 1].status = "ok"
    /\ result[c].success
    /\ result[c].routed_to = "production"

\* C7: when the production execution of a READ reports an error (and no
\* local result was obtained) the outcome has success=false and the session
\* answers with an error frame.
C7_ReadFailureIsReported ==
  \A c \in ClientIds :
    (/\ Returned(c)
     /\ QueryType(c) = "READ"
     /\ calls[c] # << >>
     /\ LastCall(c).op = "execute_production_query"
     /\ LastCall(c).status = "error")
    => /\ result[c].success = FALSE
       /\ \A i \in DOMAIN _handle_query(result[c]) :
            _handle_query(result[c])[i].frame = "error"

\* C8: in a WRITE, a table found absent gets exactly one get_table_schema
\* and then exactly one create_local_table, and the one execute_local_query
\* of the write comes after the create call of every absent table.
C8_SyncBeforeWrite ==
  \A c \in ClientIds :
    InRoute(c) /\ QueryType(c) = "WRITE" =>
      LET writes == CallsOf(c, "execute_local_query", query[c])
      IN /\ Cardinality(writes) <= 1
         /\ \A t \in TableNames(c) :
              LET fetches == CallsOf(c, "get_table_schema", t)
                  creates == CallsOf(c, "create_local_table", t)
              IN /\ Cardinality(fetches) <= 1
                 /\ Cardinality(creates) <= 1
                 /\ \A j \in creates : \E i \in fetches : i < j
                 /\ \A k \in writes :
                      FoundAbsent(c, t) =>
                        \E i \in fetches : \E j \in creates : i < j /\ j < k

\* a write executed after two absent tables were synchronized
C8_Witness ==
  \E c \in ClientIds :
    /\ Returned(c)
    /\ QueryType(c) = "WRITE"
    /\ CallsOf(c, "execute_local_query", query[c]) # {}
    /\ Cardinality({t \in TableNames(c) : FoundAbsent(c, t)}) = 2

\* C9: in a WRITE, when the schema fetch of an absent table returns no
\* schema the outcome is success=false, routed_to='error', no
\* create_local_table call is made for the table and the write is not
\* executed on the local store.
C9_NoSchemaAbortsWrite ==
  \A c \in ClientIds :
    InRoute(c) /\ QueryType(c) = "WRITE" =>
      \A i \in CallsTo(c, "get_table_schema") :
        (calls[c][i].status # "raise"
           /\ calls[c][i].ret \in {PyNone, PyList(<< >>)})
        => /\ rpc[c] = "return"
           /\ result[c].success = FALSE
           /\ result[c].routed_to = "error"
           /\ CallsOf(c, "create_local_table", calls[c][i].arg) = {}
           /\ CallsTo(c, "execute_local_query") = {}

\* production knows no such table
C9_Witness ==
  \E c \in ClientIds :
    /\ Returned(c)
    /\ QueryType(c) = "WRITE"
    /\ \E i \in CallsTo(c, "get_table_schema") :
         calls[c][i].status = "ok" /\ calls[c][i].ret = PyList(<< >>)
    /\ result[c].routed_to = "error"

\* C10: when creating the local table errors, create_local_table reports
\* failure, the outcome is success=false, routed_to='error', and the write
\* is not executed on the local store.
C10_CreateErrorAbortsWrite ==
  \A c \in ClientIds :
    InRoute(c) /\ QueryType(c) = "WRITE" =>
      \A i \in CallsTo(c, "create_local_table") :
        calls[c][i].status = "error" =>
          /\ calls[c][i].ret = PyBool(FALSE)
          /\ rpc[c] = "return"
          /\ result[c].success = FALSE
          /\ result[c].routed_to = "error"
          /\ CallsTo(c, "execute_local_query") = {}

\* C11: once a table exists locally no later WRITE fetches its schema or
\* creates it again: a handler starts to synchronise a table (the step into
\* the schema fetch) only when the table is not in the local store.
C11_NoResyncOfLocalTable ==
  [][\A c \in ClientIds :
       (rpc[c] = "write_exists" /\ rpc'[c] = "write_schema")
         => table_name'[c] \notin local.tables]_vars

\* C12: a statement classified UNKNOWN is executed once on production and
\* never locally; the outcome is routed_to='production', carries the
\* unrecognized-type warning, and has success=true exactly when the
\* production execution did not error, also when it returns no result set.
C12_UnknownOutcome ==
  \A c \in ClientIds :
    (/\ Returned(c)
     /\ QueryType(c) = "UNKNOWN"
     /\ IsSafe(c)
     /\ calls[c] # << >>
     /\ LastCall(c).status # "raise")
    => /\ CallsTo(c, "execute_production_query") = {1}
       /\ Len(calls[c]) = 1
       /\ calls[c][1].arg = query[c]
       /\ result[c].routed_to = "production"
       /\ result[c].error =
            PyStr("Query type unknown, executed on production")
       /\ result[c].success <=> (calls[c][1].status = "ok")

\* C13: a backing-store call that throws never escapes route_query: the
\* handler holds a returned outcome with success=false, routed_to='error'
\* and a message.
C13_FaultBecomesOutcome ==
  \A c \in ClientIds :
    InRoute(c) =>
      \A i \in DOMAIN calls[c] :
        calls[c][i].status = "raise" =>
          /\ i = Len(calls[c])
          /\ rpc[c] = "return"
          /\ result[c].success = FALSE
          /\ result[c].routed_to = "error"
          /\ result[c].error.py = "str"

\* every kind of backing-store call has thrown in some routing
C13_Witness ==
  \E c \in ClientIds :
    /\ Returned(c)
    /\ calls[c] # << >>
    /\ LastCall(c).status = "raise"
    /\ LastCall(c).op = "get_table_schema"
    /\ result[c].routed_to = "error"


\* the order of the states of a session: accepted (INIT), handshake sent
\* and authentication awaited (AUTH_PENDING), authenticated and waiting for
\* a query (QUERY_WAIT), handling one (QUERY_EXEC), CLOSED
SessionOrder ==
  { <<"NONE", "INIT">>,
    <<"INIT", "AUTH_PENDING">>, <<"INIT", "CLOSED">>,
    <<"AUTH_PENDING", "QUERY_WAIT">>, <<"AUTH_PENDING", "CLOSED">>,
    <<"QUERY_WAIT", "QUERY_EXEC">>, <<"QUERY_WAIT", "CLOSED">>,
    <<"QUERY_EXEC", "QUERY_WAIT">>, <<"QUERY_EXEC", "CLOSED">> }

\* C14: a session moves through its states in the order INIT, handshake
\* sent, authenticated, QUERY_WAIT and QUERY_EXEC in alternation, CLOSED;
\* no frame is read before the handshake is sent, a query is routed only in
\* an authenticated session, and a closed session reads and routes nothing.
C14_SessionOrder ==
  /\ [](\A c \in ClientIds :
          /\ pc[c] \in {"QUERY_WAIT", "QUERY_EXEC"} => authenticated[c]
          /\ pc[c] \in {"NONE", "INIT"} =>
               ~ authenticated[c] /\ packet[c] = PyAbsent
          /\ pc[c] # "QUERY_EXEC" => rpc[c] = "idle" /\ query[c] = "")
  /\ [][\A c \in ClientIds :
          /\ pc'[c] # pc[c] => <<pc[c], pc'[c]>> \in SessionOrder
          /\ pc[c] = "CLOSED" =>
               /\ pc'[c] = "CLOSED"
               /\ packet'[c] = packet[c]
               /\ sent'[c] = sent[c]
               /\ rpc'[c] = "idle"]_vars

\* a session that authenticated, answered a query and closed on a failed read
C14_Witness ==
  \E c \in ClientIds :
    /\ pc[c] = "CLOSED"
    /\ authenticated[c]
    /\ sent[c] # << >>
    /\ packet[c] = PyNone


\* frames is one error frame with the message e
OneErrorFrame(frames, e) ==
  /\ Len(frames) = 1
  /\ frames[1].frame = "error"
  /\ frames[1].data = e

\* a backing-store call of the routing of c threw
RoutingFault(c) == \E i \in DOMAIN calls[c] : calls[c][i].status = "raise"

\* encoding the outcome r raises inside _send_results
EncodingFault(r) ==
  /\ r.success
  /\ IF r.query_type = "READ" /\ Truthy(r.data)
     THEN _send_result_set(r.data.v).raised
     ELSE r.rows_affected = PyNone

\* C15 as stated: after an exception in routing or in encoding the response
\* the session sends an error frame and goes to CLOSED, not to QUERY_WAIT.
C15_FaultClosesSession ==
  [][\A c \in ClientIds :
       (/\ Returned(c)
        /\ RoutingFault(c) \/ EncodingFault(result[c])
        /\ pc'[c] # "QUERY_EXEC")
       => /\ pc'[c] = "CLOSED"
          /\ socket_closed'[c]
          /\ \E i \in DOMAIN sent'[c] : sent'[c][i].frame = "error"]_vars

\* C15 amended: an exception in routing or in encoding the response is
\* caught inside _handle_query; the session ends its answer with an error
\* frame and returns to QUERY_WAIT with its socket open.  The session goes
\* from query handling to CLOSED only when the sends on its socket raise,
\* and then no frame has reached the client.
C15_FaultAnsweredSessionOpen ==
  [][\A c \in ClientIds :
       (Returned(c) /\ pc'[c] # "QUERY_EXEC")
       => \/ /\ pc'[c] = "QUERY_WAIT"
             /\ ~ socket_closed'[c]
             /\ sent'[c] # << >>
             /\ (RoutingFault(c) \/ EncodingFault(result[c]))
                  => sent'[c][Len(sent'[c])].frame = "error"
          \/ /\ pc'[c] = "CLOSED"
             /\ socket_closed'[c]
             /\ sent'[c] = << >>]_vars

\* a thrown backing-store call answered with an error frame, the session
\* waiting for its next query
C15_Witness ==
  \E c \in ClientIds :
    /\ pc[c] = "QUERY_WAIT"
    /\ ~ socket_closed[c]
    /\ OneErrorFrame(sent[c], PyStr(Fault))

\* C16: in an authenticated session a frame that arrives whole and whose
\* decoded, trimmed text is empty (a zero-length payload included) leaves
\* the session in QUERY_WAIT with its socket open, nothing routed and
\* nothing sent.
C16_EmptyFrameKeepsWaiting ==
  \A c \in ClientIds :
    (/\ authenticated[c]
     /\ packet[c].py = "bytes"
     /\ QueryText(packet[c]) = "")
    => /\ pc[c] = "QUERY_WAIT"
       /\ ~ socket_closed[c]
       /\ rpc[c] = "idle"
       /\ sent[c] = << >>

\* C17: a failed frame read (short header, short payload, peer closed), in
\* the authentication step or in the query loop, leaves the session CLOSED
\* with its socket closed and no query routed for the frame.
C17_ReadFailureCloses ==
  \A c \in ClientIds :
    packet[c] = PyNone =>
      /\ pc[c] = "CLOSED"
      /\ socket_closed[c]
      /\ rpc[c] = "idle"
      /\ query[c] = ""
      /\ calls[c] = << >>

\* one session closed by a failed read of its authentication frame, another
\* by a failed read in its query loop
C17_Witness ==
  /\ \E c \in ClientIds :
       packet[c] = PyNone /\ ~ authenticated[c] /\ pc[c] = "CLOSED"
  /\ \E c \in ClientIds :
       packet[c] = PyNone /\ authenticated[c] /\ pc[c] = "CLOSED"

\* C18: a session that is CLOSED has its socket closed and is not in the
\* registry of the dispatcher: every entry of the registry is a session
\* that has not terminated.
C18_RegistryHoldsLiveSessions ==
  \A c \in ClientIds :
    pc[c] = "CLOSED" => socket_closed[c] /\ c \notin clients

\* C19: one query is in flight at a time in a session: nothing is sent
\* while the query is routed, and when the session waits for its next frame
\* the statement has been answered with exactly one complete response, a
\* result set, an acknowledgment or an error frame.
C19_OneCompleteResponse ==
  \A c \in ClientIds :
    /\ InRoute(c) => sent[c] = << >>
    /\ (pc[c] = "QUERY_WAIT" /\ sent[c] # << >>) =>
         /\ Len(sent[c]) = 1
         /\ sent[c][1].frame \in {"result_set", "ok", "error"}

\* the routing of c ended in a failed synchronization of a table
SyncFailed(c) ==
  /\ Returned(c)
  /\ QueryType(c) = "WRITE"
  /\ ~ result[c].success
  /\ calls[c] # << >>
  /\ LastCall(c).op \in {"get_table_schema", "create_local_table"}

\* C20: a statement the safety filter rejects, and a WRITE aborted by a
\* failed schema synchronization, are answered with one error frame that
\* carries the error of the outcome, and the session returns to QUERY_WAIT
\* with its socket open, ready for the next frame (the case left aside: the
\* client socket itself is broken and no frame can be sent).
C20_ErrorFrameKeepsConnection ==
  [][\A c \in ClientIds :
       (/\ Returned(c)
        /\ result[c].routed_to = "rejected" \/ SyncFailed(c)
        /\ pc'[c] # "QUERY_EXEC"
        /\ sent'[c] # << >>)
       => /\ OneErrorFrame(sent'[c], result[c].error)
          /\ pc'[c] = "QUERY_WAIT"
          /\ ~ socket_closed'[c]
          /\ rpc'[c] = "idle"]_vars

\* one session answered a rejected statement, another a write whose schema
\* fetch found no table, and both wait for their next frame
C20_Witness ==
  \E c1, c2 \in ClientIds :
    /\ pc[c1] = "QUERY_WAIT" /\ ~ socket_closed[c1]
    /\ OneErrorFrame(sent[c1],
          PyStr("Query contains potentially dangerous operations"))
    /\ pc[c2] = "QUERY_WAIT" /\ ~ socket_closed[c2]
    /\ OneErrorFrame(sent[c2],
          PyStr("Failed to get schema for table: LOGS"))

\* stop has completed
Stopped == main_pc = "stopped"

\* the sessions that were ever accepted
Accepted(c) == pc[c] # "NONE"

\* C21: after stop has completed the listening socket is closed and every
\* session that was ever accepted has had its socket closed, so that a
\* session reads no further packet: whatever its loop reads next is a read
\* failure, and the only state it moves to is CLOSED.
C21_StopEndsEverySession ==
  /\ [](Stopped => /\ server_socket # "listening"
                   /\ \A c \in ClientIds : Accepted(c) => socket_closed[c])
  /\ [][\A c \in ClientIds :
         Stopped => /\ pc'[c] \in {pc[c], "CLOSED"}
                    /\ packet'[c] # packet[c] => ~ Truthy(packet'[c])]_vars

\* C22: no anomaly stops the dispatcher: while the server is running (it
\* was started and stop has not been called) the accept loop is alive,
\* whatever faults the sessions met and whatever accept raised.
C22_DispatcherKeepsAccepting == running => main_pc = "accept"

\* the session has sent its answer to the statement handler c was routing
Answered(c) == Returned(c) /\ pc'[c] = "QUERY_WAIT"

\* C24: a successful READ outcome whose row set is empty is answered with
\* the success-with-no-rows frame (0x00 then 0xFE), not with a write
\* acknowledgment.
C24_EmptyRowSetFrame ==
  [][\A c \in ClientIds :
       (/\ Answered(c)
        /\ result[c].success
        /\ result[c].query_type = "READ"
        /\ result[c].data.py = "list"
        /\ result[c].data.v = << >>)
       => /\ Len(sent'[c]) = 1
          /\ sent'[c][1].frame = "empty_result_set"]_vars

\* C25: every successful WRITE outcome is answered with one write
\* acknowledgment frame, whatever the WRITE keyword and also when a comment
\* precedes the statement, and the count it carries is 1 for an INSERT, an
\* UPDATE or a DELETE.
C25_WriteAcknowledged ==
  [][\A c \in ClientIds :
       (/\ Answered(c)
        /\ result[c].success
        /\ result[c].query_type = "WRITE")
       => /\ Len(sent'[c]) = 1
          /\ sent'[c][1].frame = "ok"
          /\ (\E kw \in {"INSERT", "UPDATE", "DELETE"} :
                Contains(query[c], kw)) => sent'[c][1].data = PyInt(1)]_vars

\* C26: a statement that, once trimmed and rid of its comments, begins
\* with a READ keyword is classified READ, and one that begins with a WRITE
\* keyword is classified WRITE.
C26_KeywordClassification ==
  \A q \in DOMAIN analyzed :
    \A p \in CommentPrefixes : \A t \in KeywordTails :
      /\ \A kw \in READ_KEYWORDS :
           q = strip(p \o kw \o t)
           => analyzed[q].analysis.query_type = "READ"
      /\ \A kw \in WRITE_KEYWORDS :
           q = strip(p \o kw \o t)
           => analyzed[q].analysis.query_type = "WRITE"

\* C27: table extraction returns the tables a statement names, each once
\* and spelled as in the statement.
C27_TableNamesAsWritten ==
  \A q \in DOMAIN analyzed :
    \A e \in TableCorpus :
      q = e.sql => analyzed[q].analysis.table_names = e.tables

\* C28: is_safe_query is false for every statement that matches one of the
\* denylisted patterns, whatever the case of its letters, and true for
\* every statement that matches none.
C28_SafetyFilter ==
  \A q \in DOMAIN analyzed :
    /\ q \in {strip(x) : x \in Denylisted} => ~ analyzed[q].safe
    /\ q \in Clean => analyzed[q].safe

C28_Witness ==
  \E q \in DOMAIN analyzed :
    q = "grant all on t to u" /\ ~ analyzed[q].safe

\* C30: when the first word is in neither keyword set the fallback decides
\* on whole tokens: WRITE if INTO or SET is a token of the statement, else
\* READ if FROM or JOIN is one, else UNKNOWN.
C30_FallbackOnTokens ==
  \A q \in DOMAIN analyzed :
    LET words == split(Normalize(q))
    IN (words # << >> /\ words[1] \notin READ_KEYWORDS \cup WRITE_KEYWORDS)
       => analyzed[q].analysis.query_type =
            IF {"INTO", "SET"} \cap Range(words) # {} THEN "WRITE"
            ELSE IF {"FROM", "JOIN"} \cap Range(words) # {} THEN "READ"
            ELSE "UNKNOWN"

\* sync_table_schema has returned for the table of thread c
SyncReturned(c) == rpc[c] = "sync_return"

\* C29: synchronizing a table that already exists locally is a no-op that
\* reports success: when table_exists_local answers true, sync_table_schema
\* returns True and has made no other backing-store call.
C29_SyncOfLocalTableSucceeds ==
  \A c \in ClientIds :
    (SyncReturned(c) /\ FoundLocal(c, table_name[c]))
    => /\ Len(calls[c]) = 2
       /\ LastCall(c).ret = PyBool(TRUE)

\* A client of the stated framing: one column-count byte, per column a
\* length byte and that many bytes, then per row a length byte and that
\* many bytes holding the values joined by '|', up to the byte 0xFE.
chr(b) == CHOOSE ch \in Alphabet : ord(ch) = b

RECURSIVE Text(_)
Text(bytes) ==
  IF bytes = << >> THEN "" ELSE chr(Head(bytes)) \o Text(Tail(bytes))

\* the name in a column definition: what stands between the backquotes,
\* without the placeholder type
ColumnName(def) ==
  LET close == Find(def, Backquote, 2)
  IN IF startswith(def, Backquote) /\ close # 0
     THEN SubSeq(def, 2, close - 1) ELSE def

\* the n length-prefixed texts at the head of bytes, and the bytes after
RECURSIVE ReadTexts(_, _)
ReadTexts(bytes, n) ==
  IF n = 0 \/ bytes = << >> \/ Len(bytes) < 1 + Head(bytes)
  THEN [texts |-> << >>, rest |-> bytes]
  ELSE LET more == ReadTexts(SubSeq(bytes, 2 + Head(bytes), Len(bytes)),
                             n - 1)
       IN [texts |-> <<Text(SubSeq(bytes, 2, 1 + Head(bytes)))>>
                       \o more.texts,
           rest |-> more.rest]

\* the length-prefixed texts up to the marker 0xFE
RECURSIVE ReadRows(_)
ReadRows(bytes) ==
  IF bytes = << >> \/ Head(bytes) = 254 \/ Len(bytes) < 1 + Head(bytes)
  THEN << >>
  ELSE <<Text(SubSeq(bytes, 2, 1 + Head(bytes)))>>
       \o ReadRows(SubSeq(bytes, 2 + Head(bytes), Len(bytes)))

\* s.split('|')
RECURSIVE SplitPipe(_)
SplitPipe(s) ==
  LET i == Find(s, "|", 1)
  IN IF i = 0 THEN <<s>>
     ELSE <<SubSeq(s, 1, i - 1)>> \o SplitPipe(SubSeq(s, i + 1, Len(s)))

Decode(bytes) ==
  LET cols == ReadTexts(Tail(bytes), Head(bytes))
      rows == ReadRows(cols.rest)
  IN [columns |-> [i \in 1..Len(cols.texts) |-> ColumnName(cols.texts[i])],
      rows |-> [i \in 1..Len(rows) |-> SplitPipe(rows[i])]]

\* the column names and the stringified values of a row set
Plain(data) ==
  [columns |-> [i \in 1..Len(data[1]) |-> data[1][i].column],
   rows |-> [i \in 1..Len(data) |->
               [j \in 1..Len(data[i]) |-> str(data[i][j].value)]]]

\* every name and every row of data fits the single length byte
Fits(data) ==
  /\ \A i \in 1..Len(data[1]) : Len(col_def(data[1][i].column)) <= ByteMax
  /\ \A i \in 1..Len(data) : Len(join(data[i])) <= ByteMax

\* C23: the bytes sent for a successful READ with a non-empty row set that
\* fits the single length byte, decoded with the stated framing, give back
\* the column names and the row values, and the first byte is the number
\* of columns.
C23_ResultSetRoundTrip ==
  \A c \in ClientIds :
    (sent[c] # << >> /\ Fits(result[c].data.v))
    => /\ sent[c][1] = Len(result[c].data.v[1])
       /\ Decode(sent[c]) = Plain(result[c].data.v)

\* C31: a WRITE statement that reaches the write handler (it passed the
\* safety filter) with an empty table list is answered at once with
\* success=false, routed_to='error' and the no-table-names message, and no
\* backing-store call is made for it.
C31_WriteWithoutTables ==
  \A c \in ClientIds :
    (InRoute(c) /\ IsSafe(c) /\ QueryType(c) = "WRITE" /\ TableNames(c) = {})
    => /\ rpc[c] = "return"
       /\ result[c].success = FALSE
       /\ result[c].routed_to = "error"
       /\ result[c].query_type = "WRITE"
       /\ result[c].error = PyStr("No table names found in write query")
       /\ calls[c] = << >>

C31_Witness ==
  \E c \in ClientIds :
    /\ Returned(c) /\ IsSafe(c)
    /\ QueryType(c) = "WRITE" /\ TableNames(c) = {}
    /\ result[c].routed_to = "error"

\* no backing-store call of c met a database error or an exception
NoFault(c) ==
  \A i \in DOMAIN calls[c] : calls[c][i].status \notin {"error", "raise"}

\* c has called create_local_table for t
Created(c, t) == CallsOf(c, "create_local_table", t) # {}

\* c has reached the execution of its statement
Executed(c) == CallsTo(c, "execute_local_query") # {}

\* c and d route WRITE statements and both found table t absent locally
Racing(c, d, t) ==
  /\ c # d
  /\ InRoute(c)
  /\ QueryType(c) = "WRITE"
  /\ FoundAbsent(c, t)
  /\ query[d] \in DOMAIN analyzed
  /\ QueryType(d) = "WRITE"
  /\ FoundAbsent(d, t)

\* C32: when two sessions route WRITE statements that name the same table
\* and both found it absent locally, then, whatever the order of their
\* existence checks, schema fetches and create calls, and as long as no
\* backing-store call of the session fails for another reason, the session's
\* synchronization does not abort the write, and once both have created
\* the table it exists locally until a statement is executed.
C32_RacingSynchronizers ==
  \A c, d \in ClientIds : \A t \in AllTables :
    (Racing(c, d, t) /\ NoFault(c) /\ t \in prod.tables)
    => /\ ~ SyncFailed(c)
       /\ (Created(c, t) /\ Created(d, t) /\ ~ Executed(c) /\ ~ Executed(d))
          => t \in local.tables
       /\ Returned(c) => Executed(c)

C32_Witness ==
  \E c, d \in ClientIds : \E t \in AllTables :
    /\ Racing(c, d, t)
    /\ NoFault(c) /\ NoFault(d)
    /\ Created(c, t) /\ Created(d, t)
    /\ Executed(d)
    /\ Returned(c) /\ result[c].success /\ result[c].routed_to = "local"
    /\ t \in local.tables

\* C33: the authentication step accepts every frame that arrives whole,
\* whatever its payload, a zero-length payload included: the session leaves
\* AUTH_PENDING for CLOSED only when no frame could be read, and otherwise
\* becomes authenticated and enters the query loop (the case left aside: a
\* frame is accepted and the OK packet cannot be sent to the client).
C33_AnyAuthFrameAccepted ==
  [][\A c \in ClientIds :
       (pc[c] = "AUTH_PENDING" /\ pc'[c] # "AUTH_PENDING")
       => IF pc'[c] = "CLOSED"
          THEN ~ authenticated'[c]
               /\ (packet'[c] = PyNone \/ Truthy(packet'[c]))
          ELSE pc'[c] = "QUERY_WAIT" /\ authenticated'[c]]_vars

\* C34: every accepted connection gets a fresh identifier: the identifiers
\* handed out are 0, 1, 2, ... in accept order, the identifier of a new
\* session was never given to a session before, and the accept does not
\* replace a registry entry.
C34_FreshIdentifiers ==
  /\ [](\A c \in ClientIds :
          /\ pc[c] # "NONE" <=> c < client_counter
          /\ c \in clients => c < client_counter)
  /\ [][\A c \in ClientIds :
          (pc'[c] = "INIT" /\ pc[c] # "INIT")
          => /\ c = client_counter
             /\ client_counter' = client_counter + 1
             /\ pc[c] = "NONE"
             /\ c \notin clients
             /\ clients' = clients \cup {c}
             /\ \A d \in ClientIds \ {c} : pc'[d] = pc[d]]_vars

\* a second connection is accepted while the first session is live
C34_Witness ==
  /\ client_counter = 2
  /\ clients = {0, 1}
  /\ pc[0] \in {"AUTH_PENDING", "QUERY_WAIT", "QUERY_EXEC"}
  /\ pc[1] = "INIT"

\* C35: when stop runs while start is in the accept loop, once stop has
\* returned the registry is empty and every session that is not terminated
\* has had its socket closed: no connection is registered after stop has
\* closed the tracked sessions.
C35_NothingRegisteredAfterStop ==
  stop_pc = "done" =>
    /\ clients = {}
    /\ \A c \in ClientIds :
         pc[c] \notin {"NONE", "CLOSED"} => socket_closed[c]

\* C36: a statement that the fallback classifies WRITE (its first word is
\* not a WRITE keyword, INTO or SET occurs in it) has an empty table list,
\* and when it passes the safety filter route_query answers it at once with
\* the no-table-names error, before any backing-store call.
C36_FallbackWriteHasNoTables ==
  \A q \in DOMAIN analyzed :
    LET words == split(Normalize(q))
        a == analyzed[q].analysis
    IN (words # << >> /\ words[1] \notin WRITE_KEYWORDS
          /\ a.query_type = "WRITE")
       => /\ a.table_names = {}
          /\ analyzed[q].safe =>
               route_query(a, TRUE) =
                 [at |-> "return",
                  result |->
                    WriteError("No table names found in write query")]

\* the frames of sent that carry rows
RowFrames(frames) ==
  {i \in DOMAIN frames :
     frames[i].frame \in {"result_set", "partial_result_set",
                          "empty_result_set"}}

\* C37: a successful outcome is answered with a result set only when its
\* query_type is READ and its data is not empty; every other successful
\* outcome (UNKNOWN or WRITE with rows, READ without rows) is answered with
\* one acknowledgment frame, and none of its rows is sent.
C37_RowsOnlyForRead ==
  [][\A c \in ClientIds :
       (Answered(c) /\ result[c].success)
       => IF result[c].query_type = "READ" /\ Truthy(result[c].data)
          THEN RowFrames(sent'[c]) = {1}
          ELSE /\ RowFrames(sent'[c]) = {}
               /\ Len(sent'[c]) = 1
               /\ sent'[c][1].frame = "ok"]_vars

====
